---- MODULE Spec2Model ----
(***************************************************************************)
(* claude-status: the layout and rendering engine (src/src/layout/mod.rs,  *)
(* src/src/render/mod.rs, src/src/themes/mod.rs, src/src/widgets).         *)
(*                                                                         *)
(* Strings that the program measures, parses or emits are sequences of     *)
(* characters.  A character is a one-character TLA+ string for printable   *)
(* ASCII and a named token for the others (ESC, BEL, U+00E9, U+0301,       *)
(* U+4E2D, U+E0B0, U+E0B2).  Strings that the program only compares as     *)
(* keys (widget types, theme names, roles, canonical colour names) are     *)
(* TLA+ strings.  Option<T> is a sequence of length 0 (None) or 1 (Some).  *)
(***************************************************************************)
EXTENDS Integers, Sequences, FiniteSets, TLC

VARIABLES
  pc,              \* which operation has run: "init" before, its name after
  unicode_lf,      \* cell width the linked unicode-width gives a line feed: 0 (0.1.14) or 1 (0.2)
  color_level,     \* Renderer.color_level
  color_name,      \* argument of Renderer::parse_color
  color_spec,      \* its result (a ColorSpec, or the panic marker)
  style_out,       \* [fg, bg, bold, reset]: the Renderer's sequences for color_spec
  text_in,         \* argument of strip_ansi
  text_out,        \* its result
  config,          \* Config the LayoutEngine was built with
  widget_out,      \* per line and slot: what WidgetRegistry::render returns
  term_size,       \* columns crossterm::terminal::size reports, None when it fails
  assembled,       \* per produced line: parts, width total and string before auto-align
  output_lines,    \* result of LayoutEngine::render
  render_calls,    \* <<line, slot>> of every Widget::render call of that render
  resolved_fg,     \* result of LayoutEngine::resolve_fg_color for the first slot
  override_level,  \* argument of Renderer::detect
  env,             \* process environment: NO_COLOR, COLORTERM and TERM
  width_budget,    \* result of LayoutEngine::terminal_width, None before the call
  session,         \* SessionData handed to a widget
  widget_call,     \* WidgetConfig handed to a widget: widget_type, raw_value, metadata["char"]
  widget_result,   \* what WidgetRegistry::render returned, None before the call
  license_key,     \* argument of LicenseValidator::validate_format
  format_ok,       \* its result, None before the call
  license_store,   \* the license directory: license.key and the validation cache
  license_check,   \* what validate, check_pro and is_pro returned, None before
  activate_key,    \* argument of LicenseValidator::activate when it was the last call
  activate_result, \* its result, None when it was not the last call
  storage_result,  \* result of deactivate or of a LicenseStorage call, None when it was not the last call
  sessions,        \* rows of the sessions table
  top_query,       \* arguments of CostTracker::top_sessions: from, to, limit
  top_result,      \* the rows top_sessions returned, None when it was not the last call
  upsert_result,   \* what upsert_session returned, None when it was not the last call
  sql_io           \* how SQLite ended the statement of the last CostTracker call

vars == << pc, unicode_lf, color_level, color_name, color_spec, style_out,
           text_in, text_out, config, widget_out, term_size,
           assembled, output_lines, render_calls, resolved_fg, override_level, env,
           width_budget, session, widget_call, widget_result,
           license_key, format_ok, license_store, license_check,
           activate_key, activate_result, storage_result,
           sessions, top_query, top_result, upsert_result, sql_io >>

(***************************************************************************)
(* Bounds of the model                                                     *)
(***************************************************************************)
MaxWidgets == 3      \* slots per configured line
MaxTermWidth == 7    \* largest max_width budget
MaxSegments == 3     \* segments of a string handed to strip_ansi
MaxLines == 2        \* configured lines in the auto-align runs
MaxAlignSlots == 2   \* slots per line in the auto-align runs
MaxColumns == 45     \* largest small column count in the terminal-width runs
MaxKeySegments == 5  \* segments of a license key handed to validate_format
MaxSessions == 5     \* rows of the sessions table
MaxRenderLines == 3  \* configured lines in the line-accounting runs

(***************************************************************************)
(* Option, characters, strings                                             *)
(***************************************************************************)
None == << >>
Some(x) == << x >>
IsSome(o) == Len(o) = 1
Unwrap(o) == o[1]
UnwrapOr(o, d) == IF IsSome(o) THEN o[1] ELSE d

\* let x = value; Body(x): the value is computed once, before the body runs
With(value, Body(_)) == CHOOSE r \in { Body(x) : x \in { value } } : TRUE

ESC == "ESC"          \* U+001B
BEL == "BEL"          \* U+0007
E_ACUTE == "U+00E9"   \* two UTF-8 bytes, one cell
E_ACUTE_CAPITAL == "U+00C9" \* two UTF-8 bytes, one cell
COMBINING == "U+0301" \* two UTF-8 bytes, zero cells
WIDE == "U+4E2D"      \* three UTF-8 bytes, two cells
PL_RIGHT == "U+E0B0"  \* three UTF-8 bytes, one cell
PL_LEFT == "U+E0B2"   \* three UTF-8 bytes, one cell
TAB == "\t"           \* U+0009
LF == "\n"            \* U+000A
VT == "U+000B"
FF == "\f"            \* U+000C
CR == "\r"            \* U+000D
NEL == "U+0085"       \* two UTF-8 bytes
NBSP == "U+00A0"      \* two UTF-8 bytes
IDEOGRAPHIC_SPACE == "U+3000" \* three UTF-8 bytes, two cells

\* the other characters of the Unicode White_Space property, three UTF-8 bytes each
WideSpaces ==
  {"U+1680", "U+2000", "U+2001", "U+2002", "U+2003", "U+2004", "U+2005", "U+2006",
   "U+2007", "U+2008", "U+2009", "U+200A", "U+2028", "U+2029", "U+202F", "U+205F"}

\* the Unicode White_Space property
White_Space ==
  {TAB, LF, VT, FF, CR, " ", NEL, NBSP, IDEOGRAPHIC_SPACE} \cup WideSpaces

AsciiLower == {"a","b","c","d","e","f","g","h","i","j","k","l","m",
               "n","o","p","q","r","s","t","u","v","w","x","y","z"}
AsciiUpper == {"A","B","C","D","E","F","G","H","I","J","K","L","M",
               "N","O","P","Q","R","S","T","U","V","W","X","Y","Z"}
AsciiDigit == {"0","1","2","3","4","5","6","7","8","9"}

\* char::is_ascii_alphabetic
is_ascii_alphabetic(ch) == ch \in AsciiLower \cup AsciiUpper

\* char::len_utf8
len_utf8(ch) ==
  IF ch \in {E_ACUTE, E_ACUTE_CAPITAL, COMBINING, NEL, NBSP} THEN 2
  ELSE IF ch \in {WIDE, PL_RIGHT, PL_LEFT, IDEOGRAPHIC_SPACE} \cup WideSpaces THEN 3
  ELSE 1

\* str::len, in bytes
RECURSIVE ByteLen(_)
ByteLen(s) == IF s = << >> THEN 0 ELSE len_utf8(Head(s)) + ByteLen(Tail(s))

\* byte offset at which character i of s starts (0-based offsets, 1-based i)
ByteStart(s, i) == ByteLen(SubSeq(s, 1, i - 1))

\* str::is_char_boundary
is_char_boundary(s, k) ==
  k = ByteLen(s) \/ \E i \in 1..Len(s) : ByteStart(s, i) = k

\* &s[lo..hi]: None stands for the panic of slicing inside a character
ByteSlice(s, lo, hi) ==
  IF is_char_boundary(s, lo) /\ is_char_boundary(s, hi)
  THEN Some(SelectSeq([i \in 1..Len(s) |-> <<s[i], ByteStart(s, i)>>],
                      LAMBDA p : p[2] >= lo /\ p[2] < hi))
  ELSE None

RECURSIVE Chars(_)
Chars(ps) == IF ps = << >> THEN << >> ELSE <<Head(ps)[1]>> \o Chars(Tail(ps))

\* the width UnicodeWidthStr::width adds for one character that is not a carriage
\* return before a line feed; lf is the width the linked crate version gives a
\* line feed, every other control character counting one cell
CharWidth(ch, lf) ==
  IF ch = LF THEN lf
  ELSE IF ch \in {WIDE, IDEOGRAPHIC_SPACE} THEN 2
  ELSE IF ch = COMBINING THEN 0
  ELSE 1

\* UnicodeWidthStr::width: the sum of the widths of the characters, those of
\* the first half of s and then those of the second; a carriage return before
\* a line feed adds nothing, also where the two halves meet
RECURSIVE UnicodeWidth(_, _)
UnicodeWidth(s, lf) ==
  IF s = << >> THEN 0
  ELSE IF Len(s) = 1 THEN CharWidth(s[1], lf)
  ELSE UnicodeWidth(SubSeq(s, 1, Len(s) \div 2), lf)
       + UnicodeWidth(SubSeq(s, Len(s) \div 2 + 1, Len(s)), lf)
       - (IF s[Len(s) \div 2] = CR /\ s[Len(s) \div 2 + 1] = LF
          THEN CharWidth(CR, lf) ELSE 0)

\* str::repeat
Repeat(s, n) ==
  IF n <= 0 \/ s = << >> THEN << >>
  ELSE [k \in 1..(n * Len(s)) |-> s[((k - 1) % Len(s)) + 1]]

RECURSIVE Concat(_)
Concat(ss) == IF ss = << >> THEN << >> ELSE Head(ss) \o Concat(Tail(ss))

(***************************************************************************)
(* Numbers: parsing and formatting                                         *)
(***************************************************************************)
DigitChars == <<"0","1","2","3","4","5","6","7","8","9">>
LowerHex == <<"a","b","c","d","e","f">>
UpperHex == <<"A","B","C","D","E","F">>

\* char::to_digit(radix), for radix 10 and 16: None when ch is no digit
to_digit(ch, radix) ==
  IF \E i \in 1..10 : DigitChars[i] = ch
  THEN Some((CHOOSE i \in 1..10 : DigitChars[i] = ch) - 1)
  ELSE IF radix = 16 /\ \E i \in 1..6 : LowerHex[i] = ch
  THEN Some(9 + (CHOOSE i \in 1..6 : LowerHex[i] = ch))
  ELSE IF radix = 16 /\ \E i \in 1..6 : UpperHex[i] = ch
  THEN Some(9 + (CHOOSE i \in 1..6 : UpperHex[i] = ch))
  ELSE None

\* the digit loop of u8::from_str_radix: None on an invalid digit or overflow
RECURSIVE AccumulateU8(_, _, _)
AccumulateU8(digits, radix, acc) ==
  IF digits = << >> THEN Some(acc)
  ELSE LET d == to_digit(Head(digits), radix) IN
       IF ~IsSome(d) THEN None
       ELSE IF acc * radix + Unwrap(d) > 255 THEN None
       ELSE AccumulateU8(Tail(digits), radix, acc * radix + Unwrap(d))

\* u8::from_str_radix (core): empty, a lone sign, '-' and non-digits are errors;
\* one leading '+' is accepted
from_str_radix_u8(src, radix) ==
  IF src = << >> THEN None
  ELSE IF Len(src) = 1 /\ src[1] \in {"+", "-"} THEN None
  ELSE IF src[1] = "+" THEN AccumulateU8(Tail(src), radix, 0)
  ELSE AccumulateU8(src, radix, 0)

\* Display of an unsigned integer ({n} in format!)
RECURSIVE Dec(_)
Dec(n) == IF n < 10 THEN <<DigitChars[n + 1]>>
          ELSE Dec(n \div 10) \o <<DigitChars[(n % 10) + 1]>>

u8(x) == x % 256
u16(x) == x % 65536

(***************************************************************************)
(* Color Renderer (src/src/render/mod.rs)                                  *)
(***************************************************************************)
ColorLevels == {"None", "Basic16", "Color256", "TrueColor"}

Named(n) == [tag |-> "Named", name |-> n, idx |-> 0, r |-> 0, g |-> 0, b |-> 0]
Ansi256(n) == [tag |-> "Ansi256", name |-> "", idx |-> n, r |-> 0, g |-> 0, b |-> 0]
Rgb(r, g, b) == [tag |-> "Rgb", name |-> "", idx |-> 0, r |-> r, g |-> g, b |-> b]
\* not a ColorSpec: the call panicked (a slice inside a character)
Panicked == [tag |-> "Panic", name |-> "", idx |-> 0, r |-> 0, g |-> 0, b |-> 0]

\* std::env::var: Ok only for a variable that is set and valid Unicode
env_var(e) == IF e.set /\ e.unicode THEN Some(e.value) ELSE None

\* str::contains
contains(hay, pat) ==
  \E i \in 0..(Len(hay) - Len(pat)) : SubSeq(hay, i + 1, i + Len(pat)) = pat

\* Renderer::detect_color_level
detect_color_level(e) ==
  IF IsSome(env_var(e.NO_COLOR)) THEN "None"
  ELSE IF /\ IsSome(env_var(e.COLORTERM))
          /\ \/ Unwrap(env_var(e.COLORTERM)) = <<"t", "r", "u", "e", "c", "o", "l", "o", "r">>
             \/ Unwrap(env_var(e.COLORTERM)) = <<"2", "4", "b", "i", "t">>
       THEN "TrueColor"
  ELSE IF /\ IsSome(env_var(e.TERM))
          /\ contains(Unwrap(env_var(e.TERM)), <<"2", "5", "6", "c", "o", "l", "o", "r">>)
       THEN "Color256"
  ELSE "Basic16"

\* Renderer::detect
detect(override, e) ==
  CASE override = <<"n", "o", "n", "e">> -> "None"
    [] override = <<"1", "6">> -> "Basic16"
    [] override = <<"2", "5", "6">> -> "Color256"
    [] override = <<"t", "r", "u", "e", "c", "o", "l", "o", "r">> -> "TrueColor"
    [] OTHER -> detect_color_level(e)

\* the name arms of parse_color: <<accepted spelling, Named variant>>
ColorNameTable ==
  << <<<<"b", "l", "a", "c", "k">>, "black">>,
     <<<<"r", "e", "d">>, "red">>,
     <<<<"g", "r", "e", "e", "n">>, "green">>,
     <<<<"y", "e", "l", "l", "o", "w">>, "yellow">>,
     <<<<"b", "l", "u", "e">>, "blue">>,
     <<<<"m", "a", "g", "e", "n", "t", "a">>, "magenta">>,
     <<<<"c", "y", "a", "n">>, "cyan">>,
     <<<<"w", "h", "i", "t", "e">>, "white">>,
     <<<<"b", "r", "i", "g", "h", "t", "B", "l", "a", "c", "k">>, "brightBlack">>,
     <<<<"b", "r", "i", "g", "h", "t", "_", "b", "l", "a", "c", "k">>, "brightBlack">>,
     <<<<"b", "r", "i", "g", "h", "t", "R", "e", "d">>, "brightRed">>,
     <<<<"b", "r", "i", "g", "h", "t", "_", "r", "e", "d">>, "brightRed">>,
     <<<<"b", "r", "i", "g", "h", "t", "G", "r", "e", "e", "n">>, "brightGreen">>,
     <<<<"b", "r", "i", "g", "h", "t", "_", "g", "r", "e", "e", "n">>, "brightGreen">>,
     <<<<"b", "r", "i", "g", "h", "t", "Y", "e", "l", "l", "o", "w">>, "brightYellow">>,
     <<<<"b", "r", "i", "g", "h", "t", "_", "y", "e", "l", "l", "o", "w">>, "brightYellow">>,
     <<<<"b", "r", "i", "g", "h", "t", "B", "l", "u", "e">>, "brightBlue">>,
     <<<<"b", "r", "i", "g", "h", "t", "_", "b", "l", "u", "e">>, "brightBlue">>,
     <<<<"b", "r", "i", "g", "h", "t", "M", "a", "g", "e", "n", "t", "a">>, "brightMagenta">>,
     <<<<"b", "r", "i", "g", "h", "t", "_", "m", "a", "g", "e", "n", "t", "a">>, "brightMagenta">>,
     <<<<"b", "r", "i", "g", "h", "t", "C", "y", "a", "n">>, "brightCyan">>,
     <<<<"b", "r", "i", "g", "h", "t", "_", "c", "y", "a", "n">>, "brightCyan">>,
     <<<<"b", "r", "i", "g", "h", "t", "W", "h", "i", "t", "e">>, "brightWhite">>,
     <<<<"b", "r", "i", "g", "h", "t", "_", "w", "h", "i", "t", "e">>, "brightWhite">> >>

\* the #RRGGBB arm of parse_color: each channel slice may panic, a channel that
\* does not parse is 0
ParseHexChannels(s) ==
  LET rs == ByteSlice(s, 1, 3)
      gs == ByteSlice(s, 3, 5)
      bs == ByteSlice(s, 5, 7)
  IN  IF ~IsSome(rs) \/ ~IsSome(gs) \/ ~IsSome(bs) THEN Panicked
      ELSE Rgb(UnwrapOr(from_str_radix_u8(Chars(Unwrap(rs)), 16), 0),
               UnwrapOr(from_str_radix_u8(Chars(Unwrap(gs)), 16), 0),
               UnwrapOr(from_str_radix_u8(Chars(Unwrap(bs)), 16), 0))

\* Renderer::parse_color
parse_color(name) ==
  IF \E i \in 1..Len(ColorNameTable) : ColorNameTable[i][1] = name
  THEN Named(ColorNameTable[CHOOSE i \in 1..Len(ColorNameTable) :
                              ColorNameTable[i][1] = name][2])
  ELSE IF name # << >> /\ name[1] = "#" /\ ByteLen(name) = 7
  THEN ParseHexChannels(name)
  ELSE IF IsSome(from_str_radix_u8(name, 10))
  THEN Ansi256(Unwrap(from_str_radix_u8(name, 10)))
  ELSE Named("white")

\* a plausible slip: equal channels go through the colour cube like the others
rgb_to_256_cube_only(r, g, b) ==
  u8(16 + 36 * u8(u16(r * 5) \div 255) + 6 * u8(u16(g * 5) \div 255)
     + u8(u16(b * 5) \div 255))

\* Renderer::rgb_to_256: every value the arithmetic produces on the way, with
\* the largest value its integer type holds (the `as u8` casts included)
rgb_to_256_steps(r, g, b) ==
  IF r = g /\ g = b
  THEN IF r < 8 \/ r > 248 THEN { }
       ELSE { <<r - 8, 65535>>, <<(r - 8) * 24, 65535>>,
              <<((r - 8) * 24) \div 247, 65535>>,
              <<((r - 8) * 24) \div 247 + 232, 65535>>,
              <<((r - 8) * 24) \div 247 + 232, 255>> }
  ELSE { <<r * 5, 65535>>, <<g * 5, 65535>>, <<b * 5, 65535>>,
         <<(r * 5) \div 255, 255>>, <<(g * 5) \div 255, 255>>,
         <<(b * 5) \div 255, 255>>,
         <<36 * ((r * 5) \div 255), 255>>,
         <<16 + 36 * ((r * 5) \div 255), 255>>,
         <<6 * ((g * 5) \div 255), 255>>,
         <<16 + 36 * ((r * 5) \div 255) + 6 * ((g * 5) \div 255), 255>>,
         <<16 + 36 * ((r * 5) \div 255) + 6 * ((g * 5) \div 255)
             + (b * 5) \div 255, 255>> }

\* Renderer::rgb_to_256
rgb_to_256(r, g, b) ==
  IF r = g /\ g = b
  THEN IF r < 8 THEN 16
       ELSE IF r > 248 THEN 231
       ELSE u8(u16(u16(u16(r - 8) * 24) \div 247) + 232)
  ELSE LET ri == u8(u16(r * 5) \div 255)
           gi == u8(u16(g * 5) \div 255)
           bi == u8(u16(b * 5) \div 255)
       IN  u8(16 + 36 * ri + 6 * gi + bi)

Sgr(params) == <<ESC, "[">> \o params \o <<"m">>

NamedFgCode(n) ==
  CASE n = "black" -> 30 [] n = "red" -> 31 [] n = "green" -> 32
    [] n = "yellow" -> 33 [] n = "blue" -> 34 [] n = "magenta" -> 35
    [] n = "cyan" -> 36 [] n = "white" -> 37
    [] n = "brightBlack" -> 90 [] n = "brightRed" -> 91
    [] n = "brightGreen" -> 92 [] n = "brightYellow" -> 93
    [] n = "brightBlue" -> 94 [] n = "brightMagenta" -> 95
    [] n = "brightCyan" -> 96 [] n = "brightWhite" -> 97
    [] OTHER -> 37

NamedBgCode(n) ==
  CASE n = "black" -> 40 [] n = "red" -> 41 [] n = "green" -> 42
    [] n = "yellow" -> 43 [] n = "blue" -> 44 [] n = "magenta" -> 45
    [] n = "cyan" -> 46 [] n = "white" -> 47
    [] n \in {"brightBlack", "bgBrightBlack"} -> 100
    [] n \in {"brightRed", "bgBrightRed"} -> 101
    [] n \in {"brightGreen", "bgBrightGreen"} -> 102
    [] n \in {"brightYellow", "bgBrightYellow"} -> 103
    [] n \in {"brightBlue", "bgBrightBlue"} -> 104
    [] n \in {"brightMagenta", "bgBrightMagenta"} -> 105
    [] n \in {"brightCyan", "bgBrightCyan"} -> 106
    [] n \in {"brightWhite", "bgBrightWhite"} -> 107
    [] OTHER -> 40

\* Renderer::named_fg
named_fg(color) ==
  CASE color.tag = "Named" -> Sgr(Dec(NamedFgCode(color.name)))
    [] color.tag = "Ansi256" -> Sgr(<<"3","8",";","5",";">> \o Dec(color.idx))
    [] color.tag = "Rgb" ->
         Sgr(<<"3","8",";","5",";">> \o Dec(rgb_to_256(color.r, color.g, color.b)))

\* Renderer::named_bg
named_bg(color) ==
  CASE color.tag = "Named" -> Sgr(Dec(NamedBgCode(color.name)))
    [] color.tag = "Ansi256" -> Sgr(<<"4","8",";","5",";">> \o Dec(color.idx))
    [] color.tag = "Rgb" ->
         Sgr(<<"4","8",";","5",";">> \o Dec(rgb_to_256(color.r, color.g, color.b)))

\* Renderer::ansi256_fg
ansi256_fg(color) ==
  CASE color.tag = "Ansi256" -> Sgr(<<"3","8",";","5",";">> \o Dec(color.idx))
    [] color.tag = "Rgb" ->
         Sgr(<<"3","8",";","5",";">> \o Dec(rgb_to_256(color.r, color.g, color.b)))
    [] OTHER -> named_fg(color)

\* Renderer::ansi256_bg
ansi256_bg(color) ==
  CASE color.tag = "Ansi256" -> Sgr(<<"4","8",";","5",";">> \o Dec(color.idx))
    [] color.tag = "Rgb" ->
         Sgr(<<"4","8",";","5",";">> \o Dec(rgb_to_256(color.r, color.g, color.b)))
    [] OTHER -> named_bg(color)

\* a plausible slip: the RGB arm down-converts to the 256-colour palette
truecolor_fg_downconverts(color) == ansi256_fg(color)

\* Renderer::truecolor_fg
truecolor_fg(color) ==
  CASE color.tag = "Rgb" ->
         Sgr(<<"3","8",";","2",";">> \o Dec(color.r) \o <<";">> \o Dec(color.g)
             \o <<";">> \o Dec(color.b))
    [] OTHER -> ansi256_fg(color)

\* Renderer::truecolor_bg
truecolor_bg(color) ==
  CASE color.tag = "Rgb" ->
         Sgr(<<"4","8",";","2",";">> \o Dec(color.r) \o <<";">> \o Dec(color.g)
             \o <<";">> \o Dec(color.b))
    [] OTHER -> ansi256_bg(color)

\* Renderer::fg
fg(level, color) ==
  CASE level = "None" -> << >>
    [] level = "Basic16" -> named_fg(color)
    [] level = "Color256" -> ansi256_fg(color)
    [] level = "TrueColor" -> truecolor_fg(color)

\* Renderer::bg
bg(level, color) ==
  CASE level = "None" -> << >>
    [] level = "Basic16" -> named_bg(color)
    [] level = "Color256" -> ansi256_bg(color)
    [] level = "TrueColor" -> truecolor_bg(color)

\* a plausible slip: bold forgets the None level
bold_ignores_level(level) == Sgr(<<"1">>)

\* Renderer::bold
bold(level) == IF level = "None" THEN << >> ELSE Sgr(<<"1">>)

\* Renderer::reset
reset(level) == IF level = "None" THEN << >> ELSE Sgr(<<"0">>)

\* Renderer::osc8_link
osc8_link(level, url, text) ==
  IF level = "None" THEN text
  ELSE <<ESC, "]", "8", ";", ";">> \o url \o <<BEL>> \o text
       \o <<ESC, "]", "8", ";", ";", BEL>>

(***************************************************************************)
(* Themes (src/src/themes/mod.rs)                                          *)
(***************************************************************************)
ThemeNames == {"default", "solarized", "nord", "dracula", "gruvbox", "monokai",
               "light", "high-contrast", "one-dark", "tokyo-night", "catppuccin"}

\* the colour maps of the built-in themes
ThemeColors(name) ==
  CASE name = "default" ->
      [ model |-> <<"c", "y", "a", "n">>,
        context_ok |-> <<"g", "r", "e", "e", "n">>,
        context_warn |-> <<"y", "e", "l", "l", "o", "w">>,
        context_critical |-> <<"r", "e", "d">>,
        git_branch |-> <<"m", "a", "g", "e", "n", "t", "a">>,
        git_clean |-> <<"g", "r", "e", "e", "n">>,
        git_dirty |-> <<"y", "e", "l", "l", "o", "w">>,
        cost |-> <<"y", "e", "l", "l", "o", "w">>,
        duration |-> <<"w", "h", "i", "t", "e">>,
        separator_fg |-> <<"b", "r", "i", "g", "h", "t", "B", "l", "a", "c", "k">> ]
    [] name = "solarized" ->
      [ model |-> <<"#", "2", "6", "8", "b", "d", "2">>,
        context_ok |-> <<"#", "8", "5", "9", "9", "0", "0">>,
        context_warn |-> <<"#", "b", "5", "8", "9", "0", "0">>,
        context_critical |-> <<"#", "d", "c", "3", "2", "2", "f">>,
        git_branch |-> <<"#", "6", "c", "7", "1", "c", "4">>,
        git_clean |-> <<"#", "8", "5", "9", "9", "0", "0">>,
        git_dirty |-> <<"#", "c", "b", "4", "b", "1", "6">>,
        cost |-> <<"#", "b", "5", "8", "9", "0", "0">>,
        duration |-> <<"#", "9", "3", "a", "1", "a", "1">>,
        separator_fg |-> <<"#", "5", "8", "6", "e", "7", "5">> ]
    [] name = "nord" ->
      [ model |-> <<"#", "8", "8", "c", "0", "d", "0">>,
        context_ok |-> <<"#", "a", "3", "b", "e", "8", "c">>,
        context_warn |-> <<"#", "e", "b", "c", "b", "8", "b">>,
        context_critical |-> <<"#", "b", "f", "6", "1", "6", "a">>,
        git_branch |-> <<"#", "b", "4", "8", "e", "a", "d">>,
        git_clean |-> <<"#", "a", "3", "b", "e", "8", "c">>,
        git_dirty |-> <<"#", "d", "0", "8", "7", "7", "0">>,
        cost |-> <<"#", "e", "b", "c", "b", "8", "b">>,
        duration |-> <<"#", "d", "8", "d", "e", "e", "9">>,
        separator_fg |-> <<"#", "4", "c", "5", "6", "6", "a">> ]
    [] name = "dracula" ->
      [ model |-> <<"#", "8", "b", "e", "9", "f", "d">>,
        context_ok |-> <<"#", "5", "0", "f", "a", "7", "b">>,
        context_warn |-> <<"#", "f", "1", "f", "a", "8", "c">>,
        context_critical |-> <<"#", "f", "f", "5", "5", "5", "5">>,
        git_branch |-> <<"#", "b", "d", "9", "3", "f", "9">>,
        git_clean |-> <<"#", "5", "0", "f", "a", "7", "b">>,
        git_dirty |-> <<"#", "f", "f", "b", "8", "6", "c">>,
        cost |-> <<"#", "f", "1", "f", "a", "8", "c">>,
        duration |-> <<"#", "f", "8", "f", "8", "f", "2">>,
        separator_fg |-> <<"#", "6", "2", "7", "2", "a", "4">> ]
    [] name = "gruvbox" ->
      [ model |-> <<"#", "8", "3", "a", "5", "9", "8">>,
        context_ok |-> <<"#", "b", "8", "b", "b", "2", "6">>,
        context_warn |-> <<"#", "f", "a", "b", "d", "2", "f">>,
        context_critical |-> <<"#", "f", "b", "4", "9", "3", "4">>,
        git_branch |-> <<"#", "d", "3", "8", "6", "9", "b">>,
        git_clean |-> <<"#", "b", "8", "b", "b", "2", "6">>,
        git_dirty |-> <<"#", "f", "e", "8", "0", "1", "9">>,
        cost |-> <<"#", "f", "a", "b", "d", "2", "f">>,
        duration |-> <<"#", "e", "b", "d", "b", "b", "2">>,
        separator_fg |-> <<"#", "6", "6", "5", "c", "5", "4">> ]
    [] name = "monokai" ->
      [ model |-> <<"#", "6", "6", "d", "9", "e", "f">>,
        context_ok |-> <<"#", "a", "6", "e", "2", "2", "e">>,
        context_warn |-> <<"#", "e", "6", "d", "b", "7", "4">>,
        context_critical |-> <<"#", "f", "9", "2", "6", "7", "2">>,
        git_branch |-> <<"#", "a", "e", "8", "1", "f", "f">>,
        git_clean |-> <<"#", "a", "6", "e", "2", "2", "e">>,
        git_dirty |-> <<"#", "f", "d", "9", "7", "1", "f">>,
        cost |-> <<"#", "e", "6", "d", "b", "7", "4">>,
        duration |-> <<"#", "f", "8", "f", "8", "f", "2">>,
        separator_fg |-> <<"#", "7", "5", "7", "1", "5", "e">> ]
    [] name = "light" ->
      [ model |-> <<"#", "0", "5", "5", "0", "a", "e">>,
        context_ok |-> <<"#", "1", "1", "6", "3", "2", "9">>,
        context_warn |-> <<"#", "9", "a", "6", "7", "0", "0">>,
        context_critical |-> <<"#", "c", "f", "2", "2", "2", "e">>,
        git_branch |-> <<"#", "8", "2", "5", "0", "d", "f">>,
        git_clean |-> <<"#", "1", "1", "6", "3", "2", "9">>,
        git_dirty |-> <<"#", "b", "c", "4", "c", "0", "0">>,
        cost |-> <<"#", "9", "a", "6", "7", "0", "0">>,
        duration |-> <<"#", "2", "4", "2", "9", "2", "f">>,
        separator_fg |-> <<"#", "6", "5", "6", "d", "7", "6">> ]
    [] name = "high-contrast" ->
      [ model |-> <<"#", "7", "1", "b", "7", "f", "f">>,
        context_ok |-> <<"#", "3", "f", "b", "9", "5", "0">>,
        context_warn |-> <<"#", "d", "2", "9", "9", "2", "2">>,
        context_critical |-> <<"#", "f", "f", "7", "b", "7", "2">>,
        git_branch |-> <<"#", "d", "2", "a", "8", "f", "f">>,
        git_clean |-> <<"#", "3", "f", "b", "9", "5", "0">>,
        git_dirty |-> <<"#", "f", "0", "8", "8", "3", "e">>,
        cost |-> <<"#", "d", "2", "9", "9", "2", "2">>,
        duration |-> <<"#", "f", "0", "f", "6", "f", "c">>,
        separator_fg |-> <<"#", "8", "b", "9", "4", "9", "e">> ]
    [] name = "one-dark" ->
      [ model |-> <<"#", "6", "1", "a", "f", "e", "f">>,
        context_ok |-> <<"#", "9", "8", "c", "3", "7", "9">>,
        context_warn |-> <<"#", "e", "5", "c", "0", "7", "b">>,
        context_critical |-> <<"#", "e", "0", "6", "c", "7", "5">>,
        git_branch |-> <<"#", "c", "6", "7", "8", "d", "d">>,
        git_clean |-> <<"#", "9", "8", "c", "3", "7", "9">>,
        git_dirty |-> <<"#", "d", "1", "9", "a", "6", "6">>,
        cost |-> <<"#", "e", "5", "c", "0", "7", "b">>,
        duration |-> <<"#", "a", "b", "b", "2", "b", "f">>,
        separator_fg |-> <<"#", "5", "c", "6", "3", "7", "0">> ]
    [] name = "tokyo-night" ->
      [ model |-> <<"#", "7", "a", "a", "2", "f", "7">>,
        context_ok |-> <<"#", "9", "e", "c", "e", "6", "a">>,
        context_warn |-> <<"#", "e", "0", "a", "f", "6", "8">>,
        context_critical |-> <<"#", "f", "7", "7", "6", "8", "e">>,
        git_branch |-> <<"#", "b", "b", "9", "a", "f", "7">>,
        git_clean |-> <<"#", "9", "e", "c", "e", "6", "a">>,
        git_dirty |-> <<"#", "f", "f", "9", "e", "6", "4">>,
        cost |-> <<"#", "e", "0", "a", "f", "6", "8">>,
        duration |-> <<"#", "c", "0", "c", "a", "f", "5">>,
        separator_fg |-> <<"#", "5", "6", "5", "f", "8", "9">> ]
    [] name = "catppuccin" ->
      [ model |-> <<"#", "8", "9", "b", "4", "f", "a">>,
        context_ok |-> <<"#", "a", "6", "e", "3", "a", "1">>,
        context_warn |-> <<"#", "f", "9", "e", "2", "a", "f">>,
        context_critical |-> <<"#", "f", "3", "8", "b", "a", "8">>,
        git_branch |-> <<"#", "c", "b", "a", "6", "f", "7">>,
        git_clean |-> <<"#", "a", "6", "e", "3", "a", "1">>,
        git_dirty |-> <<"#", "f", "a", "b", "3", "8", "7">>,
        cost |-> <<"#", "f", "9", "e", "2", "a", "f">>,
        duration |-> <<"#", "c", "d", "d", "6", "f", "4">>,
        separator_fg |-> <<"#", "5", "8", "5", "b", "7", "0">> ]

\* Theme::get: an unknown name selects the default theme
Theme_get(name) ==
  [name |-> IF name \in ThemeNames THEN name ELSE "default",
   colors |-> IF name \in ThemeNames THEN ThemeColors(name) ELSE ThemeColors("default")]

\* the match of Theme::role_for_widget: widget type to role, None when unmapped
RoleOf(widget_type) ==
  CASE widget_type = "model" -> Some("model")
    [] widget_type \in {"context-percentage", "context-length"} -> Some("context_ok")
    [] widget_type = "git-branch" -> Some("git_branch")
    [] widget_type = "git-status" -> Some("git_clean")
    [] widget_type = "git-worktree" -> Some("git_branch")
    [] widget_type \in {"session-cost", "block-timer"} -> Some("cost")
    [] widget_type \in {"session-duration", "api-duration"} -> Some("duration")
    [] widget_type = "separator" -> Some("separator_fg")
    [] OTHER -> None

\* Theme::role_for_widget
role_for_widget(theme, widget_type) ==
  LET role == RoleOf(widget_type) IN
  IF ~IsSome(role) THEN None
  ELSE IF Unwrap(role) \in DOMAIN theme.colors THEN Some(theme.colors[Unwrap(role)])
  ELSE None

(***************************************************************************)
(* Widgets (src/src/widgets)                                               *)
(***************************************************************************)
\* the names WidgetRegistry::register_defaults registers
RegisteredWidgets ==
  {"model", "context-percentage", "context-length", "tokens-input",
   "tokens-output", "tokens-cached", "tokens-total", "session-cost",
   "session-duration", "block-timer", "git-branch", "git-status",
   "git-worktree", "cwd", "lines-changed", "version", "session-id",
   "vim-mode", "agent-name", "output-style", "exceeds-tokens", "api-duration",
   "custom-command", "custom-text", "separator", "terminal-width",
   "flex-separator"}

\* WidgetOutput
WidgetOutput(text, display_width, priority, visible, color_hint) ==
  [text |-> text, display_width |-> display_width, priority |-> priority,
   visible |-> visible, color_hint |-> color_hint]

\* Config::to_widget_config: the slot's fields carried over to a WidgetConfig
to_widget_config(wc) ==
  [widget_type |-> wc.widget_type, color |-> wc.color,
   background_color |-> wc.background_color, bold |-> wc.bold,
   padding |-> wc.padding, merge_next |-> wc.merge_next,
   metadata_char |-> wc.metadata_char]

\* FlexSeparatorWidget::render: metadata "char" when set and not empty, else " "
flex_separator_render(widget_config) ==
  LET fill_char == IF IsSome(widget_config.metadata_char)
                      /\ Unwrap(widget_config.metadata_char) # << >>
                   THEN Unwrap(widget_config.metadata_char)
                   ELSE <<" ">>
  IN  WidgetOutput(fill_char, 0, 100, TRUE, None)

\* SessionData: the fields the widgets below read
SessionData(vim, output_style, cost, exceeds_200k_tokens) ==
  [vim |-> vim, output_style |-> output_style, cost |-> cost,
   exceeds_200k_tokens |-> exceeds_200k_tokens]

Vim(mode) == [mode |-> mode]
OutputStyle(name) == [name |-> name]
Cost(total_duration_ms, total_api_duration_ms) ==
  [total_duration_ms |-> total_duration_ms,
   total_api_duration_ms |-> total_api_duration_ms]

\* the output every widget returns when it has nothing to show
InvisibleOutput(priority) == WidgetOutput(<< >>, 0, priority, FALSE, None)

\* the output of a widget that shows text: display_width is text.len(), in bytes
TextOutput(text, priority) == WidgetOutput(text, ByteLen(text), priority, TRUE, None)

\* VimModeWidget::render
vim_mode_render(data, widget_config) ==
  IF data.vim = None THEN InvisibleOutput(95)
  ELSE TextOutput(UnwrapOr(Unwrap(data.vim).mode, <<"N", "O", "R", "M", "A", "L">>), 95)

\* OutputStyleWidget::render
output_style_render(data, widget_config) ==
  IF data.output_style = None THEN InvisibleOutput(30)
  ELSE IF /\ IsSome(Unwrap(data.output_style).name)
          /\ Unwrap(Unwrap(data.output_style).name) # <<"d", "e", "f", "a", "u", "l", "t">>
       THEN TextOutput(Unwrap(Unwrap(data.output_style).name), 30)
  ELSE InvisibleOutput(30)

\* f64 arithmetic on naturals. A natural as binary digits, most significant first
RECURSIVE Bits(_)
Bits(n) == IF n = 0 THEN << >> ELSE Append(Bits(n \div 2), n % 2)

RECURSIVE IntOf(_)
IntOf(b) == IF b = << >> THEN 0 ELSE 2 * IntOf(SubSeq(b, 1, Len(b) - 1)) + b[Len(b)]

RECURSIVE Pow2(_)
Pow2(k) == IF k = 0 THEN 1 ELSE 2 * Pow2(k - 1)

\* k more binary digits of rem / den (rem < den), then the remainder left
RECURSIVE DivBits(_, _, _)
DivBits(rem, den, k) ==
  IF k = 0 THEN <<rem>>
  ELSE <<(2 * rem) \div den>> \o DivBits((2 * rem) % den, den, k - 1)

\* leading zero digits of the binary fraction rem / den, 0 < rem < den
RECURSIVE LeadingZeros(_, _)
LeadingZeros(rem, den) ==
  IF 2 * rem >= den THEN 0 ELSE 1 + LeadingZeros(2 * rem, den)

\* a 64-bit natural: four limbs of 16 bits, most significant first
Limbs(b) ==
  LET p == [i \in 1..(64 - Len(b)) |-> 0] \o b
  IN  <<IntOf(SubSeq(p, 1, 16)), IntOf(SubSeq(p, 17, 32)),
        IntOf(SubSeq(p, 33, 48)), IntOf(SubSeq(p, 49, 64))>>

BitLen(x) ==
  IF x[1] > 0 THEN 48 + Len(Bits(x[1]))
  ELSE IF x[2] > 0 THEN 32 + Len(Bits(x[2]))
  ELSE IF x[3] > 0 THEN 16 + Len(Bits(x[3]))
  ELSE Len(Bits(x[4]))

Limb(x, i) == IF i >= 1 /\ i <= 4 THEN x[i] ELSE 0

\* x >> n
ShiftRight(x, n) ==
  [i \in 1..4 |->
     (Limb(x, i - (n \div 16) - 1) % Pow2(n % 16)) * Pow2(16 - (n % 16))
     + Limb(x, i - (n \div 16)) \div Pow2(n % 16)]

\* x + 1
Increment(x) ==
  IF x[4] < 65535 THEN <<x[1], x[2], x[3], x[4] + 1>>
  ELSE IF x[3] < 65535 THEN <<x[1], x[2], x[3] + 1, 0>>
  ELSE IF x[2] < 65535 THEN <<x[1], x[2] + 1, 0, 0>>
  ELSE <<x[1] + 1, 0, 0, 0>>

\* x * 100
Times100(x) ==
  LET c4 == x[4] * 100
      c3 == x[3] * 100 + c4 \div 65536
      c2 == x[2] * 100 + c3 \div 65536
      c1 == x[1] * 100 + c2 \div 65536
  IN  <<c1, c2 % 65536, c3 % 65536, c4 % 65536>>

\* round to nearest, ties to even: the digits kept, and whether the part
\* dropped is above (1), at (0) or below (-1) one half
RoundEven(kept, cmp_half) ==
  IF cmp_half > 0 \/ (cmp_half = 0 /\ kept[4] % 2 = 1) THEN Increment(kept) ELSE kept

Sign(n) == IF n > 0 THEN 1 ELSE IF n < 0 THEN -1 ELSE 0

\* the quotient digits of n / d from the first 1 on, 53 of them, then the
\* remainder; all but the last f of the 53 are before the binary point
QuotientDigits(n, d) ==
  IF n \div d = 0
  THEN [ds |-> DivBits((n % d) * Pow2(LeadingZeros(n % d, d)), d, 53),
        f |-> 53 + LeadingZeros(n % d, d)]
  ELSE [ds |-> Bits(n \div d) \o DivBits(n % d, d, 53 - Len(Bits(n \div d))),
        f |-> 53 - Len(Bits(n \div d))]

\* n as f64 / d as f64, for positive integers below 2^30: the quotient rounded
\* to 53 binary digits, ties to even; the value is m / 2^f
f64_div(n, d) ==
  CHOOSE q \in
    { [m |-> RoundEven(Limbs(SubSeq(qd.ds, 1, 53)), Sign(2 * qd.ds[54] - d)),
       f |-> qd.f] : qd \in { QuotientDigits(n, d) } } : TRUE

\* q * 100.0: the exact product rounded to 53 binary digits, ties to even
f64_mul100(q) ==
  CHOOSE p \in
    { [m |-> RoundEven(ShiftRight(x, BitLen(x) - 53),
                       Sign((x[4] % Pow2(BitLen(x) - 53)) * 2 - Pow2(BitLen(x) - 53))),
       f |-> q.f - (BitLen(x) - 53)] : x \in { Times100(q.m) } } : TRUE

\* p as u64, for values below 2^31: the digits before the binary point
f64_as_u64(p) ==
  IF p.f >= 64 THEN 0
  ELSE ShiftRight(p.m, p.f)[3] * 65536 + ShiftRight(p.m, p.f)[4]

\* (api_ms as f64 / total_ms as f64 * 100.0) as u64, total_ms > 0
ApiPercent(api_ms, total_ms) ==
  IF api_ms = 0 THEN 0
  ELSE f64_as_u64(f64_mul100(f64_div(api_ms, total_ms)))

\* ApiDurationWidget::render
api_duration_render(data, widget_config) ==
  IF data.cost = None THEN InvisibleOutput(35)
  ELSE IF ~(/\ IsSome(Unwrap(data.cost).total_duration_ms)
            /\ Unwrap(Unwrap(data.cost).total_duration_ms) > 0)
       THEN InvisibleOutput(35)
  ELSE IF Unwrap(data.cost).total_api_duration_ms = None THEN InvisibleOutput(35)
  ELSE TextOutput(
         (IF widget_config.raw_value THEN << >> ELSE <<"A", "P", "I", ":", " ">>)
         \o Dec(ApiPercent(Unwrap(Unwrap(data.cost).total_api_duration_ms),
                           Unwrap(Unwrap(data.cost).total_duration_ms)))
         \o <<"%">>,
         35)

\* ExceedsTokensWidget::render
exceeds_tokens_render(data, widget_config) ==
  IF data.exceeds_200k_tokens = Some(TRUE)
  THEN TextOutput(<<"!", "2", "0", "0", "K">>, 95)
  ELSE InvisibleOutput(95)

\* Widget::render of the registered widget of a type; the widgets not listed
\* return an invisible output of priority 50 whatever the data
widget_render(widget_type, data, widget_config) ==
  CASE widget_type = "vim-mode" -> vim_mode_render(data, widget_config)
    [] widget_type = "output-style" -> output_style_render(data, widget_config)
    [] widget_type = "api-duration" -> api_duration_render(data, widget_config)
    [] widget_type = "exceeds-tokens" -> exceeds_tokens_render(data, widget_config)
    [] widget_type = "flex-separator" ->
         flex_separator_render(widget_config)
    [] OTHER -> InvisibleOutput(50)

\* WidgetRegistry::render for one slot: None for an unregistered type; data_out is
\* what the slot's widget computes from the session data
registry_render(wc, data_out) ==
  IF wc.widget_type \notin RegisteredWidgets THEN None
  ELSE IF wc.widget_type = "flex-separator"
  THEN Some(flex_separator_render(to_widget_config(wc)))
  ELSE Some(data_out)

(***************************************************************************)
(* Layout engine (src/src/layout/mod.rs)                                   *)
(***************************************************************************)
\* LayoutEngine::new; unicode_lf is a property of the linked unicode-width
LayoutEngine(cfg, level, lf) ==
  [config |-> cfg, renderer |-> level, theme |-> Theme_get(cfg.theme),
   unicode_lf |-> lf]

Width(self, s) == UnicodeWidth(s, self.unicode_lf)

\* program constants of LayoutEngine::terminal_width
FallbackColumns == 120
ReservedColumns == 40
CompactColumns == 60

saturating_sub(a, b) == IF a >= b THEN a - b ELSE 0

\* a plausible slip: a wrapping subtraction on the u16 that crossterm reports
terminal_width_wrapping(cfg, size) ==
  LET width == UnwrapOr(size, FallbackColumns) IN
  CASE cfg.flex_mode = "full" -> width
    [] cfg.flex_mode = "full-minus-40" -> u16(width - ReservedColumns)
    [] cfg.flex_mode = "compact" -> CompactColumns
    [] OTHER -> u16(width - ReservedColumns)

\* LayoutEngine::terminal_width; size is the result of crossterm::terminal::size
terminal_width(cfg, size) ==
  LET width == UnwrapOr(size, FallbackColumns) IN
  CASE cfg.flex_mode = "full" -> width
    [] cfg.flex_mode = "full-minus-40" -> saturating_sub(width, ReservedColumns)
    [] cfg.flex_mode = "compact" -> CompactColumns
    [] OTHER -> saturating_sub(width, ReservedColumns)

\* a plausible slip: the dynamic hint is consulted before the explicit colour
resolve_fg_color_hint_first(self, wc, output) ==
  IF IsSome(output.color_hint) THEN output.color_hint
  ELSE IF IsSome(wc.color) THEN wc.color
  ELSE role_for_widget(self.theme, wc.widget_type)

\* LayoutEngine::resolve_fg_color
resolve_fg_color(self, wc, output) ==
  IF IsSome(wc.color) THEN Some(Unwrap(wc.color))
  ELSE IF IsSome(output.color_hint) THEN Some(Unwrap(output.color_hint))
  ELSE IF IsSome(role_for_widget(self.theme, wc.widget_type))
  THEN Some(Unwrap(role_for_widget(self.theme, wc.widget_type)))
  ELSE None

\* what a call hands back: the string it returns, or the unwinding of a panic
\* raised inside it
Returned(text) == [panicked |-> FALSE, text |-> text]
Unwinding == [panicked |-> TRUE, text |-> << >>]

\* String::push_str on the string built so far; a panic while either operand is
\* computed unwinds the caller
push_str(styled, more) ==
  With(<<styled, more>>, LAMBDA operands :
    IF operands[1].panicked \/ operands[2].panicked THEN Unwinding
    ELSE Returned(operands[1].text \o operands[2].text))

\* self.renderer.fg(&Renderer::parse_color(color)): the colour is parsed before
\* the renderer consults its level
parsed_fg(self, color) ==
  With(parse_color(color), LAMBDA spec :
    IF spec = Panicked THEN Unwinding ELSE Returned(fg(self.renderer, spec)))

\* self.renderer.bg(&Renderer::parse_color(color))
parsed_bg(self, color) ==
  With(parse_color(color), LAMBDA spec :
    IF spec = Panicked THEN Unwinding ELSE Returned(bg(self.renderer, spec)))

\* a plausible slip: the styled text is not closed by a reset
apply_style_no_reset(self, text, wc, output) ==
  push_str(
    push_str(IF IsSome(wc.background_color)
             THEN parsed_bg(self, Unwrap(wc.background_color)) ELSE Returned(<< >>),
             IF IsSome(resolve_fg_color(self, wc, output))
             THEN parsed_fg(self, Unwrap(resolve_fg_color(self, wc, output)))
             ELSE Returned(<< >>)),
    Returned((IF UnwrapOr(wc.bold, self.config.global_bold)
              THEN bold(self.renderer) ELSE << >>)
             \o text))

\* LayoutEngine::apply_style
apply_style(self, text, wc, output) ==
  push_str(
    push_str(IF IsSome(wc.background_color)
             THEN parsed_bg(self, Unwrap(wc.background_color)) ELSE Returned(<< >>),
             IF IsSome(resolve_fg_color(self, wc, output))
             THEN parsed_fg(self, Unwrap(resolve_fg_color(self, wc, output)))
             ELSE Returned(<< >>)),
    Returned((IF UnwrapOr(wc.bold, self.config.global_bold)
              THEN bold(self.renderer) ELSE << >>)
             \o text \o reset(self.renderer)))

\* wc.padding.as_deref().unwrap_or(&config.default_padding)
PaddingOf(self, wc) == UnwrapOr(wc.padding, self.config.default_padding)

\* LayoutEngine::apply_powerline_style; bg_spec is a colour its caller parsed
apply_powerline_style(self, text, wc, bg_spec, output) ==
  push_str(
    push_str(Returned(bg(self.renderer, bg_spec)),
             IF IsSome(resolve_fg_color(self, wc, output))
             THEN parsed_fg(self, Unwrap(resolve_fg_color(self, wc, output)))
             ELSE Returned(<< >>)),
    Returned((IF UnwrapOr(wc.bold, self.config.global_bold)
              THEN bold(self.renderer) ELSE << >>)
             \o PaddingOf(self, wc) \o text \o PaddingOf(self, wc)
             \o reset(self.renderer)))

\* one element pushed on parts, with what it stands for: kind, the configured
\* slot of the widget it renders (0 when none) and the display width it occupies
Part(kind, slot, text, width) ==
  [kind |-> kind, slot |-> slot, text |-> text, width |-> width]

RECURSIVE JoinParts(_)
JoinParts(parts) ==
  IF parts = << >> THEN << >> ELSE Head(parts).text \o JoinParts(Tail(parts))

\* the parts vector and the running total a loop leaves behind, or the
\* unwinding of a panic raised inside the loop
Looped(parts, total) == [panicked |-> FALSE, parts |-> parts, total |-> total]
LoopUnwinding == [panicked |-> TRUE, parts |-> << >>, total |-> 0]

has_flex(widgets) ==
  \E i \in 1..Len(widgets) : widgets[i].wc.widget_type = "flex-separator"

\* a plausible slip: merge_next of the previous widget is not consulted
need_separator_always(widgets, i) == i > 1

\* assemble_line: need_separator
need_separator(widgets, i) == i > 1 /\ ~widgets[i - 1].wc.merge_next

\* a plausible slip: the separator is tested for room on its own, without the
\* widget it precedes
RECURSIVE assemble_loop_sep_alone(_, _, _, _, _, _)
assemble_loop_sep_alone(self, widgets, max_width, i, parts, total) ==
  IF i > Len(widgets) THEN Looped(parts, total)
  ELSE
    LET output == widgets[i].output
        wc == widgets[i].wc
        sep == self.config.default_separator
        sep_width == Width(self, sep)
        need == need_separator(widgets, i)
    IN
    IF need /\ total + sep_width > max_width
    THEN Looped(parts, total)
    ELSE
      LET parts1 == IF need THEN Append(parts, Part("sep", 0, sep, sep_width)) ELSE parts
          total1 == IF need THEN total + sep_width ELSE total
      IN
      IF total1 + output.display_width > max_width
      THEN Looped(parts1, total1)
      ELSE
        LET padding == PaddingOf(self, wc) IN
        With(apply_style(self, output.text, wc, output), LAMBDA styled :
          IF styled.panicked THEN LoopUnwinding
          ELSE With(Looped(Append(parts1, Part("widget", widgets[i].slot,
                                              padding \o styled.text \o padding,
                                              output.display_width
                                              + Width(self, padding) * 2)),
                           total1 + output.display_width + Width(self, padding) * 2),
                    LAMBDA pushed :
                      assemble_loop_sep_alone(self, widgets, max_width, i + 1,
                         pushed.parts, pushed.total)))

\* a plausible slip: an overflowing widget is skipped and the loop goes on
RECURSIVE assemble_loop_continue(_, _, _, _, _, _)
assemble_loop_continue(self, widgets, max_width, i, parts, total) ==
  IF i > Len(widgets) THEN Looped(parts, total)
  ELSE
    LET output == widgets[i].output
        wc == widgets[i].wc
        sep == self.config.default_separator
        sep_width == Width(self, sep)
        need == need_separator(widgets, i)
    IN
    IF need /\ total + sep_width + output.display_width > max_width
    THEN With(Looped(parts, total), LAMBDA kept :
           assemble_loop_continue(self, widgets, max_width, i + 1, kept.parts, kept.total))
    ELSE
      LET parts1 == IF need THEN Append(parts, Part("sep", 0, sep, sep_width)) ELSE parts
          total1 == IF need THEN total + sep_width ELSE total
      IN
      IF total1 + output.display_width > max_width
      THEN With(Looped(parts1, total1), LAMBDA kept :
             assemble_loop_continue(self, widgets, max_width, i + 1, kept.parts, kept.total))
      ELSE
        LET padding == PaddingOf(self, wc) IN
        With(apply_style(self, output.text, wc, output), LAMBDA styled :
          IF styled.panicked THEN LoopUnwinding
          ELSE With(Looped(Append(parts1, Part("widget", widgets[i].slot,
                                              padding \o styled.text \o padding,
                                              output.display_width
                                              + Width(self, padding) * 2)),
                           total1 + output.display_width + Width(self, padding) * 2),
                    LAMBDA pushed :
                      assemble_loop_continue(self, widgets, max_width, i + 1,
                         pushed.parts, pushed.total)))

\* assemble_line: the loop over the widgets, from widget i on; a widget that is
\* dropped is never styled, so its colours are never parsed
RECURSIVE assemble_loop(_, _, _, _, _, _)
assemble_loop(self, widgets, max_width, i, parts, total) ==
  IF i > Len(widgets) THEN Looped(parts, total)
  ELSE
    LET output == widgets[i].output
        wc == widgets[i].wc
        sep == self.config.default_separator
        sep_width == Width(self, sep)
        need == need_separator(widgets, i)
    IN
    IF need /\ total + sep_width + output.display_width > max_width
    THEN Looped(parts, total)
    ELSE
      LET parts1 == IF need THEN Append(parts, Part("sep", 0, sep, sep_width)) ELSE parts
          total1 == IF need THEN total + sep_width ELSE total
      IN
      IF total1 + output.display_width > max_width
      THEN Looped(parts1, total1)
      ELSE
        LET padding == PaddingOf(self, wc) IN
        With(apply_style(self, output.text, wc, output), LAMBDA styled :
          IF styled.panicked THEN LoopUnwinding
          ELSE With(Looped(Append(parts1, Part("widget", widgets[i].slot,
                                              padding \o styled.text \o padding,
                                              output.display_width
                                              + Width(self, padding) * 2)),
                           total1 + output.display_width + Width(self, padding) * 2),
                    LAMBDA pushed :
                      assemble_loop(self, widgets, max_width, i + 1,
                         pushed.parts, pushed.total)))

\* assemble_line_with_flex: need_separator
need_separator_flex(widgets, i) ==
  i > 1 /\ ~widgets[i - 1].wc.merge_next
  /\ widgets[i - 1].wc.widget_type # "flex-separator"

\* a plausible slip: the first pass leaves the padding out, as the tests of the
\* standard loop do
RECURSIVE fixed_width_no_padding(_, _, _)
fixed_width_no_padding(self, widgets, i) ==
  IF i > Len(widgets) THEN 0
  ELSE IF widgets[i].wc.widget_type = "flex-separator"
  THEN fixed_width_no_padding(self, widgets, i + 1)
  ELSE (IF need_separator_flex(widgets, i)
        THEN Width(self, self.config.default_separator) ELSE 0)
       + widgets[i].output.display_width
       + fixed_width_no_padding(self, widgets, i + 1)

\* assemble_line_with_flex, first pass: fixed width of widgets i..
RECURSIVE fixed_width_from(_, _, _)
fixed_width_from(self, widgets, i) ==
  IF i > Len(widgets) THEN 0
  ELSE IF widgets[i].wc.widget_type = "flex-separator"
  THEN fixed_width_from(self, widgets, i + 1)
  ELSE (IF need_separator_flex(widgets, i)
        THEN Width(self, self.config.default_separator) ELSE 0)
       + widgets[i].output.display_width
       + Width(self, PaddingOf(self, widgets[i].wc)) * 2
       + fixed_width_from(self, widgets, i + 1)

\* assemble_line_with_flex, second pass, from widget i on: every widget and
\* every flex slot is styled, none is dropped
RECURSIVE flex_parts_from(_, _, _, _, _)
flex_parts_from(self, widgets, flex_width, i, parts) ==
  IF i > Len(widgets) THEN Looped(parts, 0)
  ELSE
    LET output == widgets[i].output
        wc == widgets[i].wc
        sep == self.config.default_separator
        padding == PaddingOf(self, wc)
    IN
    IF wc.widget_type = "flex-separator"
    THEN LET fill == Repeat(output.text, flex_width) IN
         With(apply_style(self, fill, wc, output), LAMBDA styled :
           IF styled.panicked THEN LoopUnwinding
           ELSE With(Append(parts, Part("fill", widgets[i].slot, styled.text,
                                        Width(self, fill))),
                     LAMBDA pushed :
                       flex_parts_from(self, widgets, flex_width, i + 1, pushed)))
    ELSE LET parts1 == IF need_separator_flex(widgets, i)
                       THEN Append(parts, Part("sep", 0, sep, Width(self, sep)))
                       ELSE parts
         IN
         With(apply_style(self, output.text, wc, output), LAMBDA styled :
           IF styled.panicked THEN LoopUnwinding
           ELSE With(Append(parts1, Part("widget", widgets[i].slot,
                                         padding \o styled.text \o padding,
                                         output.display_width
                                         + Width(self, padding) * 2)),
                     LAMBDA pushed :
                       flex_parts_from(self, widgets, flex_width, i + 1, pushed)))

\* the result of assembling one line: the parts vector, the running width total,
\* the flex/fill width computed (0 when none) and the string returned
Assembled(self, parts, total, fill) ==
  [panicked |-> FALSE, parts |-> parts, total |-> total, fill |-> fill,
   line |-> JoinParts(parts) \o reset(self.renderer)]

\* an assembler that panicked returns no string
AssembledUnwinding ==
  [panicked |-> TRUE, parts |-> << >>, total |-> 0, fill |-> 0, line |-> << >>]

\* LayoutEngine::assemble_line_with_flex
assemble_line_with_flex(self, widgets, max_width) ==
  With(fixed_width_from(self, widgets, 1), LAMBDA fixed_width :
    With(saturating_sub(max_width, fixed_width), LAMBDA flex_width :
      With(flex_parts_from(self, widgets, flex_width, 1, << >>), LAMBDA second :
        IF second.panicked THEN AssembledUnwinding
        ELSE Assembled(self, second.parts, fixed_width, flex_width))))

\* LayoutEngine::assemble_line
assemble_line(self, widgets, max_width) ==
  IF has_flex(widgets) THEN assemble_line_with_flex(self, widgets, max_width)
  ELSE With(assemble_loop(self, widgets, max_width, 1, << >>, 0), LAMBDA looped :
         IF looped.panicked THEN AssembledUnwinding
         ELSE Assembled(self, looped.parts, looped.total, 0))

DefaultBg == <<"b", "l", "a", "c", "k">>

\* wc.background_color.as_deref().unwrap_or(default_bg)
BgOf(wc, default_bg) == UnwrapOr(wc.background_color, default_bg)

\* let spec = Renderer::parse_color(color);
\* format!("{}{}{}", renderer.fg(&spec), glyph, renderer.reset())
FgGlyph(self, color, glyph) ==
  push_str(parsed_fg(self, color), Returned(glyph \o reset(self.renderer)))

\* a plausible slip: the transition glyph takes its foreground from the current
\* chip instead of the previous one
RECURSIVE render_powerline_segment_own_fg(_, _, _, _, _, _, _)
render_powerline_segment_own_fg(self, widgets, parts, total, max_width, default_bg, i) ==
  IF i > Len(widgets) THEN Looped(parts, total)
  ELSE
    LET output == widgets[i].output
        wc == widgets[i].wc
        pl_sep == self.config.powerline.separator
        need == i > 1 /\ ~widgets[i - 1].wc.merge_next
        sep_width == Width(self, pl_sep)
    IN
    With(parse_color(BgOf(wc, default_bg)), LAMBDA this_bg_spec :
      IF this_bg_spec = Panicked THEN LoopUnwinding
      ELSE IF need /\ parse_color(BgOf(widgets[i - 1].wc, default_bg)) = Panicked
      THEN LoopUnwinding
      ELSE IF need /\ total + sep_width + output.display_width > max_width
      THEN Looped(parts, total)
      ELSE
        LET parts1 ==
              IF need
              THEN Append(parts,
                     Part("transition", widgets[i].slot,
                          fg(self.renderer, this_bg_spec)
                          \o bg(self.renderer, this_bg_spec) \o pl_sep
                          \o reset(self.renderer),
                          sep_width))
              ELSE parts
            total1 == IF need THEN total + sep_width ELSE total
        IN
        IF total1 + output.display_width > max_width
        THEN Looped(parts1, total1)
        ELSE
          With(apply_powerline_style(self, output.text, wc, this_bg_spec, output),
               LAMBDA styled :
            IF styled.panicked THEN LoopUnwinding
            ELSE With(Looped(Append(parts1,
                               Part("chip", widgets[i].slot, styled.text,
                                    output.display_width
                                    + Width(self, PaddingOf(self, wc)) * 2)),
                             total1 + output.display_width
                             + Width(self, PaddingOf(self, wc)) * 2),
                      LAMBDA pushed :
                        render_powerline_segment_own_fg(self, widgets, pushed.parts, pushed.total,
                           max_width, default_bg, i + 1))))

\* LayoutEngine::render_powerline_segment, from widget i on: the background of
\* the chip, and of the chip before it when a transition is due, are parsed
\* before the width tests
RECURSIVE render_powerline_segment(_, _, _, _, _, _, _)
render_powerline_segment(self, widgets, parts, total, max_width, default_bg, i) ==
  IF i > Len(widgets) THEN Looped(parts, total)
  ELSE
    LET output == widgets[i].output
        wc == widgets[i].wc
        pl_sep == self.config.powerline.separator
        need == i > 1 /\ ~widgets[i - 1].wc.merge_next
        sep_width == Width(self, pl_sep)
    IN
    With(parse_color(BgOf(wc, default_bg)), LAMBDA this_bg_spec :
      IF this_bg_spec = Panicked THEN LoopUnwinding
      ELSE IF need /\ parse_color(BgOf(widgets[i - 1].wc, default_bg)) = Panicked
      THEN LoopUnwinding
      ELSE IF need /\ total + sep_width + output.display_width > max_width
      THEN Looped(parts, total)
      ELSE
        LET parts1 ==
              IF need
              THEN Append(parts,
                     Part("transition", widgets[i].slot,
                          fg(self.renderer, parse_color(BgOf(widgets[i - 1].wc, default_bg)))
                          \o bg(self.renderer, this_bg_spec) \o pl_sep
                          \o reset(self.renderer),
                          sep_width))
              ELSE parts
            total1 == IF need THEN total + sep_width ELSE total
        IN
        IF total1 + output.display_width > max_width
        THEN Looped(parts1, total1)
        ELSE
          With(apply_powerline_style(self, output.text, wc, this_bg_spec, output),
               LAMBDA styled :
            IF styled.panicked THEN LoopUnwinding
            ELSE With(Looped(Append(parts1,
                               Part("chip", widgets[i].slot, styled.text,
                                    output.display_width
                                    + Width(self, PaddingOf(self, wc)) * 2)),
                             total1 + output.display_width
                             + Width(self, PaddingOf(self, wc)) * 2),
                      LAMBDA pushed :
                        render_powerline_segment(self, widgets, pushed.parts, pushed.total,
                           max_width, default_bg, i + 1))))

NotFlex(w) == w.wc.widget_type # "flex-separator"

\* widgets.iter().position(|(_, wc)| wc.widget_type == "flex-separator")
FlexPosition(widgets) ==
  CHOOSE i \in 1..Len(widgets) :
    /\ widgets[i].wc.widget_type = "flex-separator"
    /\ \A j \in 1..(i - 1) : widgets[j].wc.widget_type # "flex-separator"

\* assemble_powerline_line: width of the right group, with its leading separator
RECURSIVE right_width_from(_, _, _)
right_width_from(self, right_widgets, i) ==
  IF i > Len(right_widgets) THEN 0
  ELSE (IF i > 1 THEN Width(self, self.config.powerline.separator) ELSE 0)
       + right_widgets[i].output.display_width
       + Width(self, PaddingOf(self, right_widgets[i].wc)) * 2
       + right_width_from(self, right_widgets, i + 1)

\* assemble_powerline_line, flex branch: the reverse glyph and the right group
powerline_flex_right(self, right_widgets, max_width, parts2, total2, fill_width) ==
  IF right_widgets = << >>
  THEN Looped(parts2, total2) @@ [fill |-> fill_width]
  ELSE
    With(FgGlyph(self, BgOf(right_widgets[1].wc, DefaultBg), <<PL_LEFT>>),
         LAMBDA glyph :
      IF glyph.panicked THEN LoopUnwinding @@ [fill |-> 0]
      ELSE With(Looped(Append(parts2, Part("right_start", 0, glyph.text, 1)),
                       total2 + 1),
                LAMBDA pushed :
                  render_powerline_segment(self, right_widgets, pushed.parts,
                                           pushed.total, max_width, DefaultBg, 1)
                  @@ [fill |-> fill_width]))

\* assemble_powerline_line, flex branch: the gap of plain spaces
powerline_flex_fill(self, right_widgets, max_width, parts1, total1) ==
  LET pl_sep == self.config.powerline.separator
      right_width == right_width_from(self, right_widgets, 1)
                     + (IF right_widgets # << >> THEN Width(self, pl_sep) ELSE 0)
  IN  With(saturating_sub(max_width, total1 + right_width), LAMBDA fill_width :
        With(Looped(IF fill_width > 0
                    THEN Append(parts1, Part("gap", 0, Repeat(<<" ">>, fill_width),
                                             fill_width))
                    ELSE parts1,
                    IF fill_width > 0 THEN total1 + fill_width ELSE total1),
             LAMBDA pushed :
               powerline_flex_right(self, right_widgets, max_width,
                                    pushed.parts, pushed.total, fill_width)))

\* assemble_powerline_line, flex branch: the separator that closes the left
\* group, coloured by the background of its last widget, rendered or not
powerline_flex_left(self, left_widgets, right_widgets, max_width, left) ==
  LET pl_sep == self.config.powerline.separator IN
  With(left, LAMBDA segment :
    IF segment.panicked THEN LoopUnwinding @@ [fill |-> 0]
    ELSE IF left_widgets = << >>
    THEN powerline_flex_fill(self, right_widgets, max_width,
                             segment.parts, segment.total)
    ELSE
      With(FgGlyph(self, BgOf(left_widgets[Len(left_widgets)].wc, DefaultBg), pl_sep),
           LAMBDA glyph :
        IF glyph.panicked THEN LoopUnwinding @@ [fill |-> 0]
        ELSE With(Looped(Append(segment.parts,
                                Part("left_end", 0, glyph.text, Width(self, pl_sep))),
                         segment.total + Width(self, pl_sep)),
                  LAMBDA pushed :
                    powerline_flex_fill(self, right_widgets, max_width,
                                        pushed.parts, pushed.total))))

\* assemble_powerline_line: the branch taken when the line has a flex slot
powerline_flex(self, widgets, max_width, parts0, total0) ==
  With(FlexPosition(widgets), LAMBDA fidx :
    With(<<SelectSeq(SubSeq(widgets, 1, fidx - 1), NotFlex),
           SelectSeq(SubSeq(widgets, fidx + 1, Len(widgets)), NotFlex)>>,
         LAMBDA groups :
      powerline_flex_left(self, groups[1], groups[2], max_width,
        render_powerline_segment(self, groups[1], parts0, total0,
                                 max_width, DefaultBg, 1))))

\* assemble_powerline_line: the end cap and the returned string
powerline_end(self, non_flex, body) ==
  LET pl == self.config.powerline
      last_bg == IF non_flex # << >> THEN BgOf(non_flex[Len(non_flex)].wc, DefaultBg)
                 ELSE DefaultBg
  IN  With(body, LAMBDA chips :
        IF chips.panicked THEN AssembledUnwinding
        ELSE IF ~IsSome(pl.end_cap)
        THEN Assembled(self, chips.parts, chips.total, chips.fill)
        ELSE With(FgGlyph(self, last_bg, Unwrap(pl.end_cap)), LAMBDA glyph :
               IF glyph.panicked THEN AssembledUnwinding
               ELSE Assembled(self,
                      Append(chips.parts,
                        Part("end_cap", 0, glyph.text,
                             Width(self, Unwrap(pl.end_cap)))),
                      chips.total, chips.fill)))

\* assemble_powerline_line: the start cap
powerline_start(self, non_flex) ==
  LET pl == self.config.powerline
      first_bg == IF non_flex # << >> THEN BgOf(non_flex[1].wc, DefaultBg) ELSE DefaultBg
  IN  IF ~IsSome(pl.start_cap) THEN Looped(<< >>, 0)
      ELSE With(FgGlyph(self, first_bg, Unwrap(pl.start_cap)), LAMBDA glyph :
             IF glyph.panicked THEN LoopUnwinding
             ELSE Looped(<<Part("start_cap", 0, glyph.text,
                                Width(self, Unwrap(pl.start_cap)))>>,
                         Width(self, Unwrap(pl.start_cap))))

\* assemble_powerline_line: the chips between the caps
powerline_body(self, widgets, max_width, start) ==
  With(start, LAMBDA cap :
    IF cap.panicked THEN LoopUnwinding @@ [fill |-> 0]
    ELSE IF has_flex(widgets)
    THEN powerline_flex(self, widgets, max_width, cap.parts, cap.total)
    ELSE With(SelectSeq(widgets, NotFlex), LAMBDA non_flex :
           render_powerline_segment(self, non_flex, cap.parts, cap.total,
                                    max_width, DefaultBg, 1)
           @@ [fill |-> 0]))

\* LayoutEngine::assemble_powerline_line
assemble_powerline_line(self, widgets, max_width) ==
  With(SelectSeq(widgets, NotFlex), LAMBDA non_flex :
    powerline_end(self, non_flex,
      powerline_body(self, widgets, max_width, powerline_start(self, non_flex))))

\* the result string and the in_escape flag of the loop of strip_ansi
Stripped(result, in_escape) == [result |-> result, in_escape |-> in_escape]

\* strip_ansi: the loop over the characters of s, entered with the flag
\* in_escape; it runs over the first half of s, then over the second with the
\* flag the first half left
RECURSIVE strip_ansi_from(_, _)
strip_ansi_from(s, in_escape) ==
  IF s = << >> THEN Stripped(<< >>, in_escape)
  ELSE IF Len(s) = 1
  THEN (IF in_escape THEN Stripped(<< >>, ~is_ascii_alphabetic(s[1]))
        ELSE IF s[1] = ESC THEN Stripped(<< >>, TRUE)
        ELSE Stripped(s, FALSE))
  ELSE With(strip_ansi_from(SubSeq(s, 1, Len(s) \div 2), in_escape), LAMBDA head :
         With(strip_ansi_from(SubSeq(s, Len(s) \div 2 + 1, Len(s)), head.in_escape),
              LAMBDA rest : Stripped(head.result \o rest.result, rest.in_escape)))

\* strip_ansi
strip_ansi(s) == strip_ansi_from(s, FALSE).result

\* the widgets vector of one line and the Widget::render calls made to build it
Collected(widgets, calls) == [widgets |-> widgets, calls |-> calls]

\* a plausible slip: slots are kept whatever their visible flag says
RECURSIVE visible_widgets_keeps_all(_, _, _, _, _)
visible_widgets_keeps_all(line_config, line_out, l, k, got) ==
  IF k > Len(line_config) THEN got
  ELSE With(registry_render(line_config[k], line_out[k]), LAMBDA o :
         With(Collected(IF IsSome(o)
                        THEN Append(got.widgets,
                                    [output |-> Unwrap(o), wc |-> line_config[k],
                                     slot |-> k])
                        ELSE got.widgets,
                        IF IsSome(o) THEN Append(got.calls, <<l, k>>) ELSE got.calls),
              LAMBDA pushed :
                visible_widgets_keeps_all(line_config, line_out, l, k + 1, pushed)))

\* render, inner loop over the slots of configured line l, from slot k on: the
\* registry renders the widget of a slot whose type it knows, once, and the
\* output is pushed on the widgets vector when it is visible; slot records the
\* configured position of each entry
RECURSIVE visible_widgets(_, _, _, _, _)
visible_widgets(line_config, line_out, l, k, got) ==
  IF k > Len(line_config) THEN got
  ELSE With(registry_render(line_config[k], line_out[k]), LAMBDA o :
         With(Collected(IF IsSome(o) /\ Unwrap(o).visible
                        THEN Append(got.widgets,
                                    [output |-> Unwrap(o), wc |-> line_config[k],
                                     slot |-> k])
                        ELSE got.widgets,
                        IF IsSome(o) THEN Append(got.calls, <<l, k>>) ELSE got.calls),
              LAMBDA pushed :
                visible_widgets(line_config, line_out, l, k + 1, pushed)))

\* what the loop over config.lines has done so far: the lines assembled, the
\* Widget::render calls made, and whether an assembler panicked
Rendering(lines, calls, panicked) ==
  [lines |-> lines, calls |-> calls, panicked |-> panicked]

\* render: the loop over config.lines from line l on; each produced line keeps
\* the index of the configured line it comes from; a panic ends the loop
RECURSIVE assemble_lines(_, _, _, _, _)
assemble_lines(self, outs, term_width_, l, done) ==
  IF l > Len(self.config.lines) THEN done
  ELSE IF self.config.lines[l] = << >>
  THEN assemble_lines(self, outs, term_width_, l + 1, done)
  ELSE
    With(visible_widgets(self.config.lines[l], outs[l], l, 1, Collected(<< >>, << >>)),
         LAMBDA got :
      IF got.widgets = << >>
      THEN With(Rendering(done.lines, done.calls \o got.calls, FALSE), LAMBDA skipped :
             assemble_lines(self, outs, term_width_, l + 1, skipped))
      ELSE
        With(IF self.config.powerline.enabled
             THEN assemble_powerline_line(self, got.widgets, term_width_)
             ELSE assemble_line(self, got.widgets, term_width_),
             LAMBDA line :
          IF line.panicked
          THEN Rendering(<< >>, done.calls \o got.calls, TRUE)
          ELSE With(Rendering(Append(done.lines,
                                     line @@ [from |-> l, widgets |-> got.widgets]),
                              done.calls \o got.calls, FALSE),
                    LAMBDA pushed :
                      assemble_lines(self, outs, term_width_, l + 1, pushed))))

SeqMax(ns) == IF ns = << >> THEN 0
              ELSE CHOOSE m \in {ns[i] : i \in 1..Len(ns)} :
                     \A i \in 1..Len(ns) : ns[i] <= m

\* render: the powerline auto-align pass over the assembled strings
auto_align(self, lines) ==
  IF self.config.powerline.enabled /\ self.config.powerline.auto_align
     /\ Len(lines) > 1
  THEN With([i \in 1..Len(lines) |-> Width(self, strip_ansi(lines[i]))],
            LAMBDA widths :
         With(SeqMax(widths), LAMBDA max_display_width :
           [i \in 1..Len(lines) |->
              IF widths[i] < max_display_width
              THEN lines[i] \o Repeat(<<" ">>, max_display_width - widths[i])
              ELSE lines[i]]))
  ELSE lines

\* render: the lines returned, with the assembled lines they come from and the
\* Widget::render calls made; nothing is returned when an assembler panicked
render_result(self, done) ==
  With(done, LAMBDA ended :
    [panicked |-> ended.panicked,
     assembled |-> ended.lines,
     render_calls |-> ended.calls,
     output_lines |-> IF ended.panicked THEN << >>
                      ELSE auto_align(self, [i \in 1..Len(ended.lines) |->
                                               ended.lines[i].line])])

\* LayoutEngine::render
render(self, outs, size) ==
  render_result(self,
    assemble_lines(self, outs, terminal_width(self.config, size), 1,
                   Rendering(<< >>, << >>, FALSE)))

(***************************************************************************)
(* License (src/src/license)                                               *)
(***************************************************************************)
KEY_PREFIX == <<"C", "S", "-", "P", "R", "O", "-">>
KEY_SEGMENT_LEN == 4
KEY_SEGMENT_COUNT == 4
OFFLINE_GRACE_DAYS == 7
REVALIDATION_HOURS == 24


\* char::is_whitespace
is_whitespace(ch) == ch \in White_Space

\* str::trim_start, str::trim_end, str::trim
RECURSIVE trim_start(_)
trim_start(s) ==
  IF s # << >> /\ is_whitespace(Head(s)) THEN trim_start(Tail(s)) ELSE s

RECURSIVE trim_end(_)
trim_end(s) ==
  IF s # << >> /\ is_whitespace(s[Len(s)])
  THEN trim_end(SubSeq(s, 1, Len(s) - 1)) ELSE s

trim(s) == trim_end(trim_start(s))

\* str::starts_with
starts_with(s, pre) == Len(pre) <= Len(s) /\ SubSeq(s, 1, Len(pre)) = pre

\* str::split(ch).collect(): the fields between the separators, cur being the
\* field under construction
RECURSIVE split_from(_, _, _)
split_from(s, ch, cur) ==
  IF s = << >> THEN <<cur>>
  ELSE IF Head(s) = ch THEN <<cur>> \o split_from(Tail(s), ch, << >>)
  ELSE split_from(Tail(s), ch, Append(cur, Head(s)))

split(s, ch) == split_from(s, ch, << >>)

AsciiHexDigit ==
  AsciiDigit \cup {"a", "b", "c", "d", "e", "f", "A", "B", "C", "D", "E", "F"}

\* char::is_ascii_hexdigit
is_ascii_hexdigit(ch) == ch \in AsciiHexDigit

\* the segments of a trimmed key that starts with the prefix
KeySegments(key) == split(SubSeq(key, Len(KEY_PREFIX) + 1, Len(key)), "-")

\* a plausible slip: the number of segments is not checked
validate_format_any_count(key) ==
  /\ starts_with(trim(key), KEY_PREFIX)
  /\ \A j \in 1..Len(KeySegments(trim(key))) :
       /\ ByteLen(KeySegments(trim(key))[j]) = KEY_SEGMENT_LEN
       /\ \A c \in 1..Len(KeySegments(trim(key))[j]) :
            is_ascii_hexdigit(KeySegments(trim(key))[j][c])

\* LicenseValidator::validate_format
validate_format(key) ==
  \E trimmed \in { trim(key) } :
    /\ starts_with(trimmed, KEY_PREFIX)
    /\ \E segments \in { KeySegments(trimmed) } :
         /\ Len(segments) = KEY_SEGMENT_COUNT
         /\ \A j \in 1..Len(segments) :
              /\ ByteLen(segments[j]) = KEY_SEGMENT_LEN
              /\ \A c \in 1..Len(segments[j]) : is_ascii_hexdigit(segments[j][c])

\* LicenseInfo, without the validation time and the machine id
LicenseInfo(tier, status, key, expires, features) ==
  [tier |-> tier, status |-> status, key |-> key, expires |-> expires,
   features |-> features]

\* ValidationCache; age is Utc::now() - validated_at, in hours
ValidationCache(valid, tier, expires, features, age) ==
  [valid |-> valid, tier |-> tier, expires |-> expires, features |-> features,
   age |-> age]

\* pro_features
pro_features ==
  <<"cost_tracking", "burn_rate", "cost_warnings", "model_suggestions",
    "historical_stats">>

(***************************************************************************)
(* SHA-256 (FIPS 180-4), as Sha256 of the sha2 crate computes it           *)
(***************************************************************************)
\* bitwise exclusive or and conjunction of two naturals
RECURSIVE BitXor(_, _)
BitXor(m, n) ==
  IF m = 0 THEN n ELSE IF n = 0 THEN m
  ELSE 2 * BitXor(m \div 2, n \div 2) + ((m + n) % 2)
RECURSIVE BitAnd(_, _)
BitAnd(m, n) ==
  IF m = 0 \/ n = 0 THEN 0
  ELSE 2 * BitAnd(m \div 2, n \div 2) + (m % 2) * (n % 2)

\* the same on bytes, tabulated
XorByte == [m \in 0..255 |-> [n \in 0..255 |-> BitXor(m, n)]]
AndByte == [m \in 0..255 |-> [n \in 0..255 |-> BitAnd(m, n)]]
TwoTo == [e \in 0..16 |-> Pow2(e)]

\* a 32-bit word is the pair of its 16-bit halves, high half first
Word == Nat \X Nat

xor16[m \in Nat, n \in Nat] ==
  XorByte[m \div 256][n \div 256] * 256 + XorByte[m % 256][n % 256]
and16[m \in Nat, n \in Nat] ==
  AndByte[m \div 256][n \div 256] * 256 + AndByte[m % 256][n % 256]

word_xor[u \in Word, v \in Word] == <<xor16[u[1], v[1]], xor16[u[2], v[2]]>>
word_and[u \in Word, v \in Word] == <<and16[u[1], v[1]], and16[u[2], v[2]]>>
word_not[u \in Word] == <<65535 - u[1], 65535 - u[2]>>
\* u32::wrapping_add
wrapping_add[u \in Word, v \in Word] ==
  <<(u[1] + v[1] + (u[2] + v[2]) \div 65536) % 65536, (u[2] + v[2]) % 65536>>
\* u32::rotate_right
rotate_right[u \in Word, e \in 0..31] ==
  IF e >= 16
  THEN <<u[2] \div TwoTo[e - 16] + (u[1] % TwoTo[e - 16]) * TwoTo[32 - e],
         u[1] \div TwoTo[e - 16] + (u[2] % TwoTo[e - 16]) * TwoTo[32 - e]>>
  ELSE <<u[1] \div TwoTo[e] + (u[2] % TwoTo[e]) * TwoTo[16 - e],
         u[2] \div TwoTo[e] + (u[1] % TwoTo[e]) * TwoTo[16 - e]>>
\* u32 >> e, e < 16
shift_right[u \in Word, e \in 0..15] ==
  <<u[1] \div TwoTo[e], u[2] \div TwoTo[e] + (u[1] % TwoTo[e]) * TwoTo[16 - e]>>

\* the functions of FIPS 180-4, section 4.1.2
Ch[u \in Word, v \in Word, w \in Word] ==
  word_xor[word_and[u, v], word_and[word_not[u], w]]
Maj[u \in Word, v \in Word, w \in Word] ==
  word_xor[word_xor[word_and[u, v], word_and[u, w]], word_and[v, w]]
BigSigma0[u \in Word] ==
  word_xor[word_xor[rotate_right[u, 2], rotate_right[u, 13]], rotate_right[u, 22]]
BigSigma1[u \in Word] ==
  word_xor[word_xor[rotate_right[u, 6], rotate_right[u, 11]], rotate_right[u, 25]]
SmallSigma0[u \in Word] ==
  word_xor[word_xor[rotate_right[u, 7], rotate_right[u, 18]], shift_right[u, 3]]
SmallSigma1[u \in Word] ==
  word_xor[word_xor[rotate_right[u, 17], rotate_right[u, 19]], shift_right[u, 10]]

\* the initial hash value: the fractional parts of the square roots of the first
\* eight primes, each word as its two 16-bit halves
H0 ==
  <<<<27145, 58983>>, <<47975, 44677>>, <<15470, 62322>>, <<42319, 62778>>,
    <<20750, 21119>>, <<39685, 26764>>, <<8067, 55723>>, <<23520, 52505>>>>
\* the round constants: the fractional parts of the cube roots of the first 64 primes
K ==
  <<<<17034, 12184>>, <<28983, 17553>>, <<46528, 64463>>, <<59829, 56229>>,
    <<14678, 49755>>, <<23025, 4593>>, <<37439, 33444>>, <<43804, 24277>>,
    <<55303, 43672>>, <<4739, 23297>>, <<9265, 34238>>, <<21772, 32195>>,
    <<29374, 23924>>, <<32990, 45566>>, <<39900, 1703>>, <<49563, 61812>>,
    <<58523, 27073>>, <<61374, 18310>>, <<4033, 40390>>, <<9228, 41420>>,
    <<11753, 11375>>, <<19060, 33962>>, <<23728, 43484>>, <<30457, 35034>>,
    <<38974, 20818>>, <<43057, 50797>>, <<45059, 10184>>, <<48985, 32711>>,
    <<50912, 3059>>, <<54695, 37191>>, <<1738, 25425>>, <<5161, 10599>>,
    <<10167, 2693>>, <<11803, 8504>>, <<19756, 28156>>, <<21304, 3347>>,
    <<25866, 29524>>, <<30314, 2747>>, <<33218, 51502>>, <<37490, 11397>>,
    <<41663, 59553>>, <<43034, 26187>>, <<49739, 35696>>, <<51052, 20899>>,
    <<53650, 59417>>, <<54937, 1572>>, <<62478, 13701>>, <<4202, 41072>>,
    <<6564, 49430>>, <<7735, 27656>>, <<10056, 30540>>, <<13488, 48309>>,
    <<14620, 3251>>, <<20184, 43594>>, <<23452, 51791>>, <<26670, 28659>>,
    <<29839, 33518>>, <<30885, 25455>>, <<33992, 30740>>, <<36039, 520>>,
    <<37054, 65530>>, <<42064, 27883>>, <<48889, 41975>>, <<50801, 30962>>>>

\* the message padded to whole 64-byte blocks: 0x80, zeros, and the length in
\* bits as a 64-bit big-endian number
sha_pad(bytes) ==
  bytes \o <<128>> \o [j \in 1..((119 - Len(bytes)) % 64) |-> 0]
        \o <<0, 0, 0, 0, (Len(bytes) * 8) \div 16777216, ((Len(bytes) * 8) \div 65536) % 256,
             ((Len(bytes) * 8) \div 256) % 256, (Len(bytes) * 8) % 256>>

\* the sixteen big-endian words of block j (from 0) of the padded message
block_words(padded, j) ==
  [e \in 1..16 |->
     <<padded[64 * j + 4 * e - 3] * 256 + padded[64 * j + 4 * e - 2],
       padded[64 * j + 4 * e - 1] * 256 + padded[64 * j + 4 * e]>>]

\* the message schedule with `more` further words, each from the sixteen
\* before it; the first half of them is computed, then the second
RECURSIVE sha_schedule_more(_, _)
sha_schedule_more(ws, more) ==
  IF more = 0 THEN ws
  ELSE IF more = 1
  THEN Append(ws,
         wrapping_add[wrapping_add[SmallSigma1[ws[Len(ws) - 1]], ws[Len(ws) - 6]],
                      wrapping_add[SmallSigma0[ws[Len(ws) - 14]], ws[Len(ws) - 15]]])
  ELSE CHOOSE done \in
         { sha_schedule_more(longer, more - more \div 2) :
             longer \in { sha_schedule_more(ws, more \div 2) } } : TRUE

\* the message schedule: words 17..64 from the sixteen of the block
sha_schedule(ws) == sha_schedule_more(ws, 64 - Len(ws))

\* one round on the working variables a..h, kw being K[t] + W[t]
sha_round(st, kw) ==
  CHOOSE next \in
    { <<wrapping_add[t1, wrapping_add[BigSigma0[st[1]], Maj[st[1], st[2], st[3]]]],
        st[1], st[2], st[3], wrapping_add[st[4], t1], st[5], st[6], st[7]>> :
        t1 \in { wrapping_add[wrapping_add[st[8], BigSigma1[st[5]]],
                              wrapping_add[Ch[st[5], st[6], st[7]], kw]] } } : TRUE

\* rounds t..last: the first half of them, then the second
RECURSIVE sha_rounds_to(_, _, _, _)
sha_rounds_to(st, ws, t, last) ==
  IF t > last THEN st
  ELSE IF t = last THEN sha_round(st, wrapping_add[K[t], ws[t]])
  ELSE CHOOSE done \in
         { sha_rounds_to(half, ws, (t + last) \div 2 + 1, last) :
             half \in { sha_rounds_to(st, ws, t, (t + last) \div 2) } } : TRUE

\* rounds t..64
sha_rounds(st, ws, t) == sha_rounds_to(st, ws, t, 64)

\* compress256: the hash value after one more block
compress(hash, block) ==
  CHOOSE sum \in
    { [e \in 1..8 |-> wrapping_add[hash[e], st[e]]] :
        st \in { sha_rounds(hash, ws, 1) : ws \in { sha_schedule(block) } } } : TRUE

\* the hash value after blocks j.. of the padded message
RECURSIVE sha_blocks(_, _, _)
sha_blocks(hash, padded, j) ==
  IF 64 * j >= Len(padded) THEN hash
  ELSE CHOOSE done \in
         { sha_blocks(next, padded, j + 1) :
             next \in { compress(hash, block_words(padded, j)) } } : TRUE

\* Sha256::new, update, finalize: the 32 bytes of the digest
Sha256(bytes) ==
  CHOOSE digest \in
    { [e \in 1..32 |->
         IF e % 4 = 1 THEN hash[(e + 3) \div 4][1] \div 256
         ELSE IF e % 4 = 2 THEN hash[(e + 3) \div 4][1] % 256
         ELSE IF e % 4 = 3 THEN hash[(e + 3) \div 4][2] \div 256
         ELSE hash[(e + 3) \div 4][2] % 256] :
        hash \in { sha_blocks(H0, padded, 0) : padded \in { sha_pad(bytes) } } } : TRUE

HexDigits ==
  <<"0", "1", "2", "3", "4", "5", "6", "7", "8", "9", "a", "b", "c", "d", "e", "f">>

\* hex::encode
RECURSIVE hex_encode(_)
hex_encode(bytes) ==
  IF bytes = << >> THEN << >>
  ELSE <<HexDigits[Head(bytes) \div 16 + 1], HexDigits[(Head(bytes) % 16) + 1]>>
       \o hex_encode(Tail(bytes))

\* the printable ASCII characters, U+0020 to U+007E
AsciiPrintable ==
  <<" ", "!", "\"", "#", "$", "%", "&", "'", "(", ")", "*", "+", ",", "-", ".", "/",
    "0", "1", "2", "3", "4", "5", "6", "7", "8", "9", ":", ";", "<", "=", ">", "?",
    "@", "A", "B", "C", "D", "E", "F", "G", "H", "I", "J", "K", "L", "M", "N", "O",
    "P", "Q", "R", "S", "T", "U", "V", "W", "X", "Y", "Z", "[", "\\", "]", "^", "_",
    "U+0060", "a", "b", "c", "d", "e", "f", "g", "h", "i", "j", "k", "l", "m", "n", "o",
    "p", "q", "r", "s", "t", "u", "v", "w", "x", "y", "z", "{", "|", "}", "~">>

\* char as u32
code_point(ch) ==
  CASE ch = TAB -> 9 [] ch = LF -> 10 [] ch = VT -> 11 [] ch = FF -> 12 [] ch = CR -> 13
    [] ch = BEL -> 7 [] ch = ESC -> 27 [] ch = NEL -> 133 [] ch = NBSP -> 160
    [] ch = E_ACUTE_CAPITAL -> 201 [] ch = E_ACUTE -> 233 [] ch = COMBINING -> 769
    [] ch = "U+1680" -> 5760 [] ch = "U+2000" -> 8192 [] ch = "U+2001" -> 8193
    [] ch = "U+2002" -> 8194 [] ch = "U+2003" -> 8195 [] ch = "U+2004" -> 8196
    [] ch = "U+2005" -> 8197 [] ch = "U+2006" -> 8198 [] ch = "U+2007" -> 8199
    [] ch = "U+2008" -> 8200 [] ch = "U+2009" -> 8201 [] ch = "U+200A" -> 8202
    [] ch = "U+2028" -> 8232 [] ch = "U+2029" -> 8233 [] ch = "U+202F" -> 8239
    [] ch = "U+205F" -> 8287 [] ch = IDEOGRAPHIC_SPACE -> 12288 [] ch = WIDE -> 20013
    [] ch = PL_RIGHT -> 57520 [] ch = PL_LEFT -> 57522
    [] OTHER -> 31 + (CHOOSE c \in 1..Len(AsciiPrintable) : AsciiPrintable[c] = ch)

\* char::encode_utf8, for the code points below U+10000
encode_utf8(cp) ==
  IF cp < 128 THEN <<cp>>
  ELSE IF cp < 2048 THEN <<192 + cp \div 64, 128 + (cp % 64)>>
  ELSE <<224 + cp \div 4096, 128 + ((cp \div 64) % 64), 128 + (cp % 64)>>

\* str::as_bytes
RECURSIVE as_bytes(_)
as_bytes(s) ==
  IF s = << >> THEN << >> ELSE encode_utf8(code_point(Head(s))) \o as_bytes(Tail(s))

\* str::to_uppercase
to_uppercase(s) ==
  [k \in 1..Len(s) |->
     IF s[k] = E_ACUTE THEN E_ACUTE_CAPITAL
     ELSE IF \E c \in 66..91 : AsciiPrintable[c] = s[k]
     THEN AsciiPrintable[(CHOOSE c \in 66..91 : AsciiPrintable[c] = s[k]) - 32]
     ELSE s[k]]

\* LicenseValidator::verify_checksum, on a key that starts with the prefix: the
\* last segment against the first four hex digits of the SHA-256 of the first three
verify_checksum(key) ==
  /\ Len(KeySegments(trim(key))) = KEY_SEGMENT_COUNT
  /\ to_uppercase(KeySegments(trim(key))[4])
       = to_uppercase(SubSeq(hex_encode(Sha256(as_bytes(
           KeySegments(trim(key))[1] \o <<"-">> \o KeySegments(trim(key))[2]
             \o <<"-">> \o KeySegments(trim(key))[3]))), 1, KEY_SEGMENT_LEN))

\* LicenseValidator::offline_validate
offline_validate(key) ==
  IF validate_format(key) /\ verify_checksum(key)
  THEN LicenseInfo("Pro", "Valid", key, None, pro_features)
  ELSE LicenseInfo("Free", "Invalid", key, None, << >>)

\* a plausible slip: a cache of exactly 24 hours still counts as fresh
validate_fresh_inclusive(key, cache) ==
  IF ~validate_format(key) THEN LicenseInfo("Free", "Invalid", key, None, << >>)
  ELSE IF IsSome(cache) /\ Unwrap(cache).valid
          /\ Unwrap(cache).age <= REVALIDATION_HOURS
       THEN LicenseInfo(Unwrap(cache).tier, "Valid", key, Unwrap(cache).expires,
                        Unwrap(cache).features)
  ELSE IF IsSome(cache) /\ Unwrap(cache).valid
          /\ Unwrap(cache).age < OFFLINE_GRACE_DAYS * 24
       THEN LicenseInfo(Unwrap(cache).tier, "GracePeriod", key, Unwrap(cache).expires,
                        Unwrap(cache).features)
  ELSE offline_validate(key)

\* LicenseValidator::validate; cache is the result of LicenseStorage::load_cache
validate(key, cache) ==
  IF ~validate_format(key) THEN LicenseInfo("Free", "Invalid", key, None, << >>)
  ELSE IF IsSome(cache) /\ Unwrap(cache).valid
          /\ Unwrap(cache).age < REVALIDATION_HOURS
       THEN LicenseInfo(Unwrap(cache).tier, "Valid", key, Unwrap(cache).expires,
                        Unwrap(cache).features)
  ELSE IF IsSome(cache) /\ Unwrap(cache).valid
          /\ Unwrap(cache).age < OFFLINE_GRACE_DAYS * 24
       THEN LicenseInfo(Unwrap(cache).tier, "GracePeriod", key, Unwrap(cache).expires,
                        Unwrap(cache).features)
  ELSE offline_validate(key)

\* LicenseStorage::load_key; key_file is the content of license.key, None when
\* the file cannot be read
load_key(key_file) ==
  IF key_file = None THEN None
  ELSE IF trim(Unwrap(key_file)) = << >> THEN None
  ELSE Some(trim(Unwrap(key_file)))

\* the license directory: the content of license.key and the parsed cache file
Storage(key_file, cache) == [key_file |-> key_file, cache |-> cache]

\* Result<_, String> and io::Result<()>, the error left out
Ok(info) == <<"Ok", info>>
Err == <<"Err">>

\* how a write ends and the bytes it left in the file
WriteOutcome(kind, written) == [kind |-> kind, written |-> written]

\* byte counts a write that failed part-way leaves behind
PartialWrites == { 0, 7 }

\* what read_to_string gives for a file holding the first written bytes of
\* data: None when the bytes end inside a character and are not UTF-8
written_file(data, written) ==
  IF ~is_char_boundary(data, written) THEN None
  ELSE Some(Chars(Unwrap(ByteSlice(data, 0, written))))

\* how a call of LicenseStorage::save_key(key) ends: Ok; Err with the file as
\* it was (ensure_dir failed, or fs::write could not open the file); Err with
\* the file truncated and only the first bytes of the key in it (fs::write
\* failed after opening); Err with the file written (set_permissions failed)
SaveKeyOutcomes(key) ==
  { WriteOutcome(kind, 0) : kind \in { "ok", "unwritten", "unprotected" } }
  \cup { WriteOutcome("truncated", n) :
           n \in { m \in PartialWrites : m < ByteLen(trim(key)) } }

\* LicenseStorage::save_key: the result and the directory it leaves
save_key(store, key, io) ==
  [result |-> IF io.kind = "ok" THEN Ok(<< >>) ELSE Err,
   store |-> IF io.kind = "unwritten" THEN store
             ELSE IF io.kind = "truncated"
             THEN Storage(written_file(trim(key), io.written), store.cache)
             ELSE Storage(Some(trim(key)), store.cache)]

\* LicenseStorage::remove_key; io_ok is whether fs::remove_file succeeds
remove_key(store, io_ok) ==
  [result |-> IF io_ok THEN Ok(<< >>) ELSE Err,
   store |-> IF io_ok THEN Storage(None, store.cache) ELSE store]

\* how a call of LicenseStorage::save_cache ends: Ok; Err with the file as it
\* was (ensure_dir failed, or fs::write could not open the file); Err with the
\* file truncated and part of the JSON text in it (fs::write failed after
\* opening)
SaveCacheOutcomes == { "ok", "unwritten", "truncated" }

\* LicenseStorage::save_cache: the result and the directory it leaves; no
\* proper prefix of the text of a JSON object parses, so load_cache reads a
\* truncated file as None
save_cache(store, cache, io) ==
  [result |-> IF io = "ok" THEN Ok(<< >>) ELSE Err,
   store |-> IF io = "ok" THEN Storage(store.key_file, Some(cache))
             ELSE IF io = "truncated" THEN Storage(store.key_file, None)
             ELSE store]

\* LicenseStorage::remove_cache: the directory it leaves, the error dropped
remove_cache(store, io_ok) ==
  IF io_ok THEN Storage(store.key_file, None) ELSE store

\* a plausible slip: the key and the cache are written before the format is checked
activate_saves_first(store, key, key_io, cache_io) ==
  IF save_key(store, key, key_io).result = Err
  THEN [result |-> Err, store |-> save_key(store, key, key_io).store]
  ELSE [result |-> IF ~validate_format(key) THEN Err
                   ELSE Ok(LicenseInfo("Pro", "Valid", key, None, pro_features)),
        store |-> save_cache(save_key(store, key, key_io).store,
                             ValidationCache(TRUE, "Pro", None, pro_features, 0),
                             cache_io).store]

\* LicenseValidator::activate: the result and the directory it leaves; an error
\* of save_key is returned, an error of save_cache is dropped
activate(store, key, key_io, cache_io) ==
  IF ~validate_format(key) THEN [result |-> Err, store |-> store]
  ELSE IF save_key(store, key, key_io).result = Err
  THEN [result |-> Err, store |-> save_key(store, key, key_io).store]
  ELSE [result |-> Ok(LicenseInfo("Pro", "Valid", key, None, pro_features)),
        store |-> save_cache(save_key(store, key, key_io).store,
                             ValidationCache(TRUE, "Pro", None, pro_features, 0),
                             cache_io).store]

\* LicenseValidator::deactivate: an error of remove_key is returned before
\* remove_cache is called
deactivate(store, key_io_ok, cache_io_ok) ==
  IF remove_key(store, key_io_ok).result = Err
  THEN [result |-> Err, store |-> remove_key(store, key_io_ok).store]
  ELSE [result |-> Ok(<< >>),
        store |-> remove_cache(remove_key(store, key_io_ok).store, cache_io_ok)]

\* check_pro: what validate returned (None when it was not called) and the result
CheckResult(info) ==
  [validated |-> Some(info),
   pro_info |-> IF info.status = "Valid" THEN Some(info) ELSE None]

\* a plausible slip: the offline grace period counts as Pro
check_pro_grace(store) ==
  IF load_key(store.key_file) = None THEN [validated |-> None, pro_info |-> None]
  ELSE [validated |->
          Some(validate(Unwrap(load_key(store.key_file)), store.cache)),
        pro_info |->
          IF validate(Unwrap(load_key(store.key_file)), store.cache).status \in {"Valid", "GracePeriod"}
          THEN Some(validate(Unwrap(load_key(store.key_file)), store.cache))
          ELSE None]

\* check_pro
check_pro(store) ==
  IF load_key(store.key_file) = None THEN [validated |-> None, pro_info |-> None]
  ELSE CheckResult(validate(Unwrap(load_key(store.key_file)), store.cache))

\* is_pro
is_pro(store) == IsSome(check_pro(store).pro_info)

(***************************************************************************)
(* Cost history (src/src/storage/history.rs)                               *)
(***************************************************************************)
\* SessionRecord: the columns top_sessions filters and orders on, and the key
SessionRecord(id, start_time, total_cost) ==
  [id |-> id, start_time |-> start_time, total_cost |-> total_cost]

\* how SQLite ends a statement: it runs to the end ("ok"), or it is refused
\* when it is prepared ("prepare"), when its parameters are bound ("bind"), or
\* at a step, after `rows` rows were handed out ("step"): a database locked by
\* another connection, a disk that takes no more writes
SqlOutcome(kind, rows) == [kind |-> kind, rows |-> rows]
SqlOk == SqlOutcome("ok", 0)

\* CostTracker::upsert_session: INSERT ... ON CONFLICT(id) DO UPDATE SET every
\* column but id and start_time; execute(..)? hands back the error of a
\* statement SQLite refused, and the table is as it was
upsert_session(rows, record, io) ==
  [result |-> IF io.kind = "ok" THEN Ok(<< >>) ELSE Err,
   rows |-> IF io.kind # "ok" THEN rows
            ELSE IF \E r \in rows : r.id = record.id
            THEN { IF r.id = record.id THEN [r EXCEPT !.total_cost = record.total_cost]
                   ELSE r : r \in rows }
            ELSE rows \cup { record }]

\* WHERE start_time >= ?1 AND start_time < ?2
InRange(rows, from, to) ==
  { r \in rows : r.start_time >= from /\ r.start_time < to }

\* ORDER BY total_cost DESC LIMIT ?3: every order SQLite may return, rows of
\* equal cost in any order
RECURSIVE OrderByCostDesc(_, _)
OrderByCostDesc(rows, limit) ==
  IF rows = {} \/ limit = 0 THEN { << >> }
  ELSE UNION { { <<r>> \o rest : rest \in OrderByCostDesc(rows \ {r}, limit - 1) } :
               r \in { x \in rows : \A y \in rows : y.total_cost <= x.total_cost } }

\* a plausible slip: ORDER BY total_cost without DESC
RECURSIVE OrderByCostAsc(_, _)
OrderByCostAsc(rows, limit) ==
  IF rows = {} \/ limit = 0 THEN { << >> }
  ELSE UNION { { <<r>> \o rest : rest \in OrderByCostAsc(rows \ {r}, limit - 1) } :
               r \in { x \in rows : \A y \in rows : y.total_cost >= x.total_cost } }

\* what a call of top_sessions comes to: a Vec, or the panic of an unwrap
Queried(panicked, rows) == [panicked |-> panicked, rows |-> rows]

top_sessions_ascending(rows, from, to, limit, io) ==
  { IF io.kind \in { "prepare", "bind" } THEN Queried(TRUE, << >>)
    ELSE IF io.kind = "step" THEN Queried(FALSE, SubSeq(full, 1, io.rows))
    ELSE Queried(FALSE, full) :
      full \in { f \in OrderByCostAsc(InRange(rows, from, to), limit) :
                   io.rows <= Len(f) } }

\* CostTracker::top_sessions: the set of outcomes of the query, for every order
\* SQLite may hand the rows out in. prepare(..).unwrap() and
\* query_map(..).unwrap() panic on a refused statement; filter_map(|r| r.ok())
\* drops the error of a refused step, after which the iterator is at its end:
\* the rows handed out before it are the result. A step is refused after at
\* most as many rows as the query has.
top_sessions(rows, from, to, limit, io) ==
  { IF io.kind \in { "prepare", "bind" } THEN Queried(TRUE, << >>)
    ELSE IF io.kind = "step" THEN Queried(FALSE, SubSeq(full, 1, io.rows))
    ELSE Queried(FALSE, full) :
      full \in { f \in OrderByCostDesc(InRange(rows, from, to), limit) :
                   io.rows <= Len(f) } }

(***************************************************************************)
(* Inputs                                                                  *)
(***************************************************************************)
Red == <<"r", "e", "d">>
Green == <<"g", "r", "e", "e", "n">>
Blue == <<"b", "l", "u", "e">>

\* LineWidgetConfig (id and raw_value are not read by the layout engine)
Slot(widget_type, color, background_color, bold_, padding, merge_next, metadata_char) ==
  [widget_type |-> widget_type, color |-> color,
   background_color |-> background_color, bold |-> bold_, padding |-> padding,
   merge_next |-> merge_next, metadata_char |-> metadata_char]

\* PowerlineConfig
Powerline(enabled, separator, start_cap, end_cap, align) ==
  [enabled |-> enabled, separator |-> separator, start_cap |-> start_cap,
   end_cap |-> end_cap, auto_align |-> align]

PowerlineOff == Powerline(FALSE, <<PL_RIGHT>>, None, None, FALSE)

\* Config
Config(lines, default_separator, default_padding, global_bold, theme, flex_mode, powerline) ==
  [lines |-> lines, default_separator |-> default_separator,
   default_padding |-> default_padding, global_bold |-> global_bold,
   theme |-> theme, flex_mode |-> flex_mode, powerline |-> powerline]

EmptyConfig == Config(<< >>, <<"|">>, << >>, FALSE, "default", "full", PowerlineOff)

\* a visible output whose display_width is the measured width of its text
VisibleOutput(text, hint) == WidgetOutput(text, UnicodeWidth(text, 1), 50, TRUE, hint)
HiddenOutput == WidgetOutput(<<"h">>, 1, 50, FALSE, None)

NoStyle == [fg |-> << >>, bg |-> << >>, bold |-> << >>, reset |-> << >>]

IdleColor ==
  /\ color_name = << >>
  /\ color_spec = Named("white")
  /\ style_out = NoStyle

IdleText ==
  /\ text_in = << >>
  /\ text_out = << >>

IdleLayout ==
  /\ config = EmptyConfig
  /\ widget_out = << >>
  /\ term_size = None
  /\ assembled = << >>
  /\ output_lines = << >>
  /\ render_calls = << >>
  /\ resolved_fg = None

\* an environment variable: unset, set to a string, or set to bytes that are
\* not valid Unicode
EnvUnset == [set |-> FALSE, unicode |-> TRUE, value |-> << >>]
EnvValue(s) == [set |-> TRUE, unicode |-> TRUE, value |-> s]
EnvNotUnicode == [set |-> TRUE, unicode |-> FALSE, value |-> << >>]

NoEnv == [NO_COLOR |-> EnvUnset, COLORTERM |-> EnvUnset, TERM |-> EnvUnset]

IdleEnv ==
  /\ override_level = << >>
  /\ env = NoEnv

env_vars == << override_level, env >>

IdleWidth == width_budget = None

NoSession == SessionData(None, None, None, None)

IdleWidget ==
  /\ session = NoSession
  /\ widget_call = [widget_type |-> "", raw_value |-> FALSE, metadata_char |-> None]
  /\ widget_result = None

widget_vars == << session, widget_call, widget_result >>

IdleFormat ==
  /\ license_key = << >>
  /\ format_ok = None

format_vars == << license_key, format_ok >>

NoStore == Storage(None, None)

IdleCheck ==
  /\ license_store = NoStore
  /\ license_check = None

check_vars == << license_store, license_check >>

IdleActivation ==
  /\ activate_key = << >>
  /\ activate_result = None
  /\ storage_result = None

activation_vars == << activate_key, activate_result, storage_result >>

IdleLicense == IdleFormat /\ IdleCheck /\ IdleActivation

license_vars == << format_vars, check_vars, activation_vars >>

IdleHistory ==
  /\ sessions = {}
  /\ top_query = [from |-> 0, to |-> 0, limit |-> 0]
  /\ top_result = None
  /\ upsert_result = None
  /\ sql_io = SqlOk

history_vars == << sessions, top_query, top_result, upsert_result, sql_io >>

\* the state of the operations an action does not belong to
ext_vars == << env_vars, width_budget, widget_vars, license_vars, history_vars >>

\* the operations outside the colour, text and layout groups have not run
IdleExt == IdleEnv /\ IdleWidth /\ IdleWidget /\ IdleLicense /\ IdleHistory

\* the initial state outside an operation's own inputs
IdleAll ==
  /\ pc = "init"
  /\ unicode_lf = 1
  /\ color_level = "None"
  /\ IdleColor
  /\ IdleText
  /\ IdleLayout

HexSample == {"0", "7", "c", "F"}

HexLiterals ==
  { <<"#", a, b, c, d, e, f>> : a \in HexSample, b \in HexSample, c \in HexSample,
                                d \in HexSample, e \in HexSample, f \in HexSample }
  \cup { <<"#", "1", "a", "2", "b", "3", "c">> }

OtherColorInputs ==
  { << >>, <<"p", "u", "r", "p", "l", "e">>, <<"R", "e", "d">>,
    <<"1", "2">>, <<"2", "5", "5">>, <<"2", "5", "6">>, <<"+", "7">>, <<"-", "1">>,
    <<"0", "0", "7">>,
    <<"#", "z", "z", "z", "z", "z", "z">>, <<"#", "1", "2", "3", "4", "5">>,
    <<"#", "1", "2", "3", "4", "5", "6", "7">>, <<"#", "+", "1", "+", "2", "+", "3">>,
    <<"#", "1", E_ACUTE, "2", "3", "4">>, <<"#", E_ACUTE, "1", "2", "3", "4">>,
    <<"#", "1", "2", "3", E_ACUTE, "4">>, <<"#", "1", "2", WIDE, "3">> }

ColorInputs ==
  { ColorNameTable[i][1] : i \in 1..Len(ColorNameTable) }
  \cup HexLiterals \cup OtherColorInputs

(***************************************************************************)
(* Colour: parse a colour string, then ask the renderer for its sequences  *)
(***************************************************************************)
InitColor ==
  /\ pc = "init"
  /\ unicode_lf = 1
  /\ color_level \in ColorLevels
  /\ color_name \in ColorInputs
  /\ color_spec = Named("white")
  /\ style_out = NoStyle
  /\ IdleText
  /\ IdleLayout
  /\ IdleExt

\* Renderer::parse_color(color_name)
ParseColor ==
  /\ pc = "init"
  /\ color_spec' = parse_color(color_name)
  /\ pc' = "parsed"
  /\ UNCHANGED << unicode_lf, color_level, color_name, style_out, text_in, text_out,
                  config, widget_out, term_size, assembled, output_lines, render_calls, resolved_fg,
                  ext_vars >>

\* Renderer::fg, bg, bold and reset on the parsed colour
Style ==
  /\ pc = "parsed"
  /\ color_spec.tag # "Panic"
  /\ style_out' = [fg |-> fg(color_level, color_spec),
                   bg |-> bg(color_level, color_spec),
                   bold |-> bold(color_level),
                   reset |-> reset(color_level)]
  /\ pc' = "styled"
  /\ UNCHANGED << unicode_lf, color_level, color_name, color_spec, text_in, text_out,
                  config, widget_out, term_size, assembled, output_lines, render_calls, resolved_fg,
                  ext_vars >>

NextColor == ParseColor \/ Style

SpecColor == InitColor /\ [][NextColor]_vars

(***************************************************************************)
(* strip_ansi on strings made of printable text, SGR and OSC 8 sequences   *)
(***************************************************************************)
StripSegments ==
  { <<"a">>, <<WIDE>>, <<"1", COMBINING>>,
    reset("Basic16"),
    fg("Color256", Ansi256(1)),
    osc8_link("Basic16", <<"h", "t", "t", "p", ":", "/", "/", "x">>, <<"t">>),
    osc8_link("Basic16", <<"/", "/", "1">>, <<"t">>) }

InitStrip ==
  /\ pc = "init"
  /\ unicode_lf \in {0, 1}
  /\ color_level = "None"
  /\ IdleColor
  /\ \E n \in 0..MaxSegments :
       \E segs \in [1..n -> StripSegments] : text_in = Concat(segs)
  /\ text_out = << >>
  /\ IdleLayout
  /\ IdleExt

\* strip_ansi(text_in)
StripAnsi ==
  /\ pc = "init"
  /\ text_out' = strip_ansi(text_in)
  /\ pc' = "stripped"
  /\ UNCHANGED << unicode_lf, color_level, color_name, color_spec, style_out, text_in,
                  config, widget_out, term_size, assembled, output_lines, render_calls, resolved_fg,
                  ext_vars >>

SpecStrip == InitStrip /\ [][StripAnsi]_vars

(***************************************************************************)
(* Layout: LayoutEngine::render on a configuration                         *)
(***************************************************************************)
Engine == LayoutEngine(config, color_level, unicode_lf)

\* LayoutEngine::render(data, config, registry): the lines it returns, or, when
\* a colour of the configuration makes parse_color panic, the unwinding that
\* returns none
Render ==
  /\ pc = "init"
  /\ \E r \in {render(Engine, widget_out, term_size)} :
       /\ assembled' = r.assembled
       /\ output_lines' = r.output_lines
       /\ render_calls' = r.render_calls
       /\ pc' = IF r.panicked THEN "panicked" ELSE "rendered"
  /\ UNCHANGED << unicode_lf, color_level, color_name, color_spec, style_out, text_in,
                  text_out, config, widget_out, term_size, resolved_fg,
                  ext_vars >>

\* LayoutEngine::resolve_fg_color for the first slot of the first line
ResolveFg ==
  /\ pc = "init"
  /\ config.lines # << >> /\ config.lines[1] # << >>
  /\ resolved_fg' = resolve_fg_color(Engine, config.lines[1][1], widget_out[1][1])
  /\ pc' = "resolved"
  /\ UNCHANGED << unicode_lf, color_level, color_name, color_spec, style_out, text_in,
                  text_out, config, widget_out, term_size, assembled, output_lines, render_calls,
                  ext_vars >>

LayoutRest ==
  /\ pc = "init"
  /\ unicode_lf = 1
  /\ IdleColor
  /\ IdleText
  /\ assembled = << >>
  /\ output_lines = << >>
  /\ render_calls = << >>
  /\ resolved_fg = None
  /\ IdleExt

WidgetTexts == { <<"a">>, <<"b", WIDE>> }

\* a 7-byte colour whose green slice s[3..5] ends inside a character:
\* parse_color panics on it
MalformedColor == <<"#", "1", "2", "3", E_ACUTE, "4">>

\* the slots of a line, slot bad (none when 0) given the malformed colour as its
\* colour or as its background
WithColor(slots, bad) ==
  [k \in 1..Len(slots) |->
     IF k = bad THEN [slots[k] EXCEPT !.color = Some(MalformedColor)] ELSE slots[k]]

WithBackground(slots, bad) ==
  [k \in 1..Len(slots) |->
     IF k = bad THEN [slots[k] EXCEPT !.background_color = Some(MalformedColor)]
     ELSE slots[k]]
PaddingChoices == { None, Some(<<" ">>) }

\* standard assembler: one line of visible, non-flex widgets
StdSlots ==
  { Slot("model", None, None, None, p, m, None) : p \in PaddingChoices, m \in BOOLEAN }
StdOutputs == { VisibleOutput(t, None) : t \in WidgetTexts }

InitStd ==
  /\ LayoutRest
  /\ color_level = "Basic16"
  /\ term_size \in { Some(w) : w \in 0..MaxTermWidth }
  /\ \E n \in 0..MaxWidgets :
       \E line \in [1..n -> StdSlots \X StdOutputs] :
         \E sep \in { <<"|">>, <<" ", "|", " ">> }, pad \in { << >>, <<" ">> },
            bad \in 0..n :
           /\ config = Config(<<WithColor([k \in 1..n |-> line[k][1]], bad)>>,
                              sep, pad, FALSE, "default", "full", PowerlineOff)
           /\ widget_out = <<[k \in 1..n |-> line[k][2]]>>

SpecStd == InitStd /\ [][Render]_vars

\* flex assembler: one line mixing widgets and flex slots of several fill strings
FlexFills == { None, Some(<< >>), Some(<<"-">>), Some(<<WIDE>>), Some(<<"=", "=">>) }
FlexSlots ==
  { Slot("model", None, None, None, p, m, None) : p \in PaddingChoices, m \in BOOLEAN }
  \cup { Slot("flex-separator", None, None, None, None, FALSE, c) : c \in FlexFills }

InitFlex ==
  /\ LayoutRest
  /\ color_level = "Basic16"
  /\ term_size \in { Some(w) : w \in 0..MaxTermWidth }
  /\ \E n \in 0..MaxWidgets :
       \E line \in [1..n -> FlexSlots], bad \in 0..n :
         /\ config = Config(<<WithColor(line, bad)>>, <<"|">>, << >>, FALSE,
                            "default", "full", PowerlineOff)
         /\ widget_out = <<[k \in 1..n |-> VisibleOutput(<<"a">>, None)]>>

SpecFlex == InitFlex /\ [][Render]_vars

\* visibility: one line mixing visible and invisible widgets, a flex slot and an
\* unregistered type, assembled by the standard, flex and powerline assemblers
VisSlots ==
  { Slot("model", None, b, None, None, m, None) : b \in { None, Some(Red) },
                                                  m \in BOOLEAN }
  \cup { Slot("flex-separator", None, None, None, None, FALSE, None),
         Slot("no-such-widget", None, None, None, None, FALSE, None) }

VisLines(n) ==
  { line \in [1..n -> VisSlots \X { VisibleOutput(<<"a">>, None), HiddenOutput }] :
      \A k \in 1..n :
        line[k][1].widget_type # "model" => line[k][2] = VisibleOutput(<<"a">>, None) }

\* budgets at which no widget, one widget and two widgets fit
VisWidths == { 0, 1, 4, MaxTermWidth }

InitVis ==
  /\ LayoutRest
  /\ color_level = "Basic16"
  /\ term_size \in { Some(w) : w \in VisWidths }
  /\ \E n \in 0..MaxWidgets :
       \E line \in VisLines(n) :
         \E on \in BOOLEAN, bad \in 0..n :
           /\ config = Config(<<WithBackground([k \in 1..n |-> line[k][1]], bad)>>,
                              <<"|">>, <<" ">>, FALSE, "default", "full",
                              Powerline(on, <<PL_RIGHT>>, None, Some(<<PL_RIGHT>>), FALSE))
           /\ widget_out = <<[k \in 1..n |-> line[k][2]]>>

SpecVis == InitVis /\ [][Render]_vars

\* auto-align: several lines of differing width, powerline and auto_align on or off
\* a widget text that carries an OSC 8 hyperlink, as a session field may
Hyperlink == osc8_link("Basic16", <<"/", "/", "x">>, <<"t">>)

AlignLines ==
  UNION { [1..n -> { Slot("model", None, None, None, None, FALSE, None) }
                   \X { VisibleOutput(t, None) : t \in WidgetTexts \cup { Hyperlink } }] :
          n \in 0..MaxAlignSlots }

InitAlign ==
  /\ LayoutRest
  /\ color_level \in { "None", "Color256" }
  /\ term_size = Some(FallbackColumns)
  /\ \E m \in 0..MaxLines :
       \E ls \in [1..m -> AlignLines] :
         \E on \in BOOLEAN, align \in BOOLEAN, cap \in { None, Some(<<PL_RIGHT>>) },
            bad \in 0..1 :
           /\ config = Config([l \in 1..m |->
                                 WithColor([k \in 1..Len(ls[l]) |-> ls[l][k][1]], bad)],
                              <<"|">>, <<" ">>, FALSE, "default", "full",
                              Powerline(on, <<PL_RIGHT>>, None, cap, align))
           /\ widget_out = [l \in 1..m |-> [k \in 1..Len(ls[l]) |-> ls[l][k][2]]]

SpecAlign == InitAlign /\ [][Render]_vars

\* line accounting: up to MaxRenderLines configured lines, each empty, all
\* hidden, all unregistered, or with visible widgets among hidden and
\* unregistered ones, one of them with a colour parse_color panics on
LineShapes ==
  { << >>,
    << <<Slot("model", None, None, None, None, FALSE, None), HiddenOutput>> >>,
    << <<Slot("no-such-widget", None, None, None, None, FALSE, None),
         VisibleOutput(<<"a">>, None)>> >>,
    << <<Slot("model", None, None, None, None, FALSE, None), HiddenOutput>>,
       <<Slot("no-such-widget", None, None, None, None, FALSE, None),
         VisibleOutput(<<"a">>, None)>> >>,
    << <<Slot("model", None, None, None, None, FALSE, None),
         VisibleOutput(<<"a">>, None)>> >>,
    << <<Slot("no-such-widget", None, None, None, None, FALSE, None),
         VisibleOutput(<<"a">>, None)>>,
       <<Slot("cwd", None, None, None, None, FALSE, None), HiddenOutput>>,
       <<Slot("model", None, Some(Red), None, None, FALSE, None),
         VisibleOutput(<<"b", WIDE>>, None)>> >>,
    << <<Slot("flex-separator", None, None, None, None, FALSE, None),
         VisibleOutput(<<"a">>, None)>> >>,
    << <<Slot("model", Some(MalformedColor), None, None, None, FALSE, None),
         HiddenOutput>>,
       <<Slot("cwd", Some(MalformedColor), None, None, None, FALSE, None),
         VisibleOutput(<<"a">>, None)>> >> }

InitLines ==
  /\ LayoutRest
  /\ color_level \in { "None", "Basic16" }
  /\ term_size \in { Some(0), Some(MaxTermWidth) }
  /\ \E m \in 0..MaxRenderLines :
       \E ls \in [1..m -> LineShapes] :
         \E pl \in { PowerlineOff,
                      Powerline(TRUE, <<PL_RIGHT>>, None, None, FALSE),
                      Powerline(TRUE, <<PL_RIGHT>>, None, Some(<<PL_RIGHT>>), TRUE) } :
           /\ config = Config([l \in 1..m |-> [k \in 1..Len(ls[l]) |-> ls[l][k][1]]],
                              <<"|">>, <<" ">>, FALSE, "default", "full", pl)
           /\ widget_out = [l \in 1..m |-> [k \in 1..Len(ls[l]) |-> ls[l][k][2]]]

SpecLines == InitLines /\ [][Render]_vars

\* powerline: one line of chips of several backgrounds and a flex slot, with and
\* without caps
PlSlots ==
  { Slot("model", None, b, None, None, m, None) :
      b \in { None, Some(Red), Some(Blue) }, m \in BOOLEAN }
  \cup { Slot("flex-separator", None, None, None, None, FALSE, None) }

\* <<default_padding, powerline separator>>: no padding or one space, a glyph of
\* one cell or a glyph followed by a space
PlStyles ==
  { << << >>, <<PL_RIGHT>> >>, << <<" ">>, <<PL_RIGHT>> >>, << << >>, <<PL_RIGHT, " ">> >> }

InitPowerline ==
  /\ LayoutRest
  /\ color_level = "Basic16"
  /\ term_size \in { Some(w) : w \in 0..MaxTermWidth }
  /\ \E n \in 0..MaxWidgets :
       \E line \in [1..n -> PlSlots], style \in PlStyles, bad \in { 0, n } :
         \E scap \in { None, Some(<<PL_LEFT>>) }, ecap \in { None, Some(<<PL_RIGHT>>) } :
           /\ config = Config(<<WithBackground(line, bad)>>, <<"|">>, style[1], FALSE,
                              "default", "full",
                              Powerline(TRUE, style[2], scap, ecap, FALSE))
           /\ widget_out = <<[k \in 1..n |-> VisibleOutput(<<"a">>, None)]>>

SpecPowerline == InitPowerline /\ [][Render]_vars

\* colour resolution: one slot, with or without explicit colour and hint, every
\* theme and widget types the themes do and do not give a role
ResolveTypes ==
  { "model", "context-percentage", "context-length", "git-branch", "git-status",
    "git-worktree", "session-cost", "block-timer", "session-duration",
    "api-duration", "separator", "cwd", "version", "flex-separator" }

InitResolve ==
  /\ LayoutRest
  /\ color_level = "Basic16"
  /\ term_size = Some(FallbackColumns)
  /\ \E t \in ResolveTypes, c \in { None, Some(Red) }, h \in { None, Some(Green) },
        th \in ThemeNames \cup { "no-such-theme" } :
       /\ config = Config(<< <<Slot(t, c, None, None, None, FALSE, None)>> >>,
                          <<"|">>, <<" ">>, FALSE, th, "full", PowerlineOff)
       /\ widget_out = << <<VisibleOutput(<<"a">>, h)>> >>

SpecResolve == InitResolve /\ [][ResolveFg]_vars

\* lines rendered at level None: plain and styled widgets (colour, background
\* and bold set), with a plain text or one that carries a hyperlink
StyledLineShapes ==
  { << >>,
    << <<Slot("model", None, None, None, None, FALSE, None),
         VisibleOutput(<<"a">>, None)>> >>,
    << <<Slot("model", Some(Red), Some(<<"#", "1", "a", "2", "b", "3", "c">>),
              Some(TRUE), None, FALSE, None),
         VisibleOutput(<<"b", WIDE>>, None)>>,
       <<Slot("cwd", None, None, None, Some(<< >>), TRUE, None),
         VisibleOutput(Hyperlink, Some(Green))>> >>,
    << <<Slot("version", Some(<<"1", "2">>), None, None, None, FALSE, None),
         VisibleOutput(<<"a">>, None)>>,
       <<Slot("model", None, Some(Red), None, None, FALSE, None),
         VisibleOutput(Hyperlink, None)>> >> }

InitStyledLines ==
  /\ LayoutRest
  /\ color_level = "None"
  /\ term_size = Some(FallbackColumns)
  /\ \E m \in 0..MaxLines :
       \E ls \in [1..m -> StyledLineShapes] :
         \E on \in BOOLEAN, align \in BOOLEAN, bold_all \in BOOLEAN,
            cap \in { None, Some(<<PL_RIGHT>>) }, bad \in 0..1 :
           /\ config = Config([l \in 1..m |->
                                 WithColor([k \in 1..Len(ls[l]) |-> ls[l][k][1]], bad)],
                              <<"|">>, <<" ">>, bold_all, "default", "full",
                              Powerline(on, <<PL_RIGHT>>, cap, cap, align))
           /\ widget_out = [l \in 1..m |-> [k \in 1..Len(ls[l]) |-> ls[l][k][2]]]

\* the renderer's sequences and the lines the engine builds from them
InitStyled == InitColor \/ InitStyledLines

NextStyled == ParseColor \/ Style \/ Render

SpecStyled == InitStyled /\ [][NextStyled]_vars

(***************************************************************************)
(* Colour level: Renderer::detect on an override and an environment        *)
(***************************************************************************)
OverrideInputs ==
  { <<"n", "o", "n", "e">>, <<"1", "6">>, <<"2", "5", "6">>, <<"t", "r", "u", "e", "c", "o", "l", "o", "r">>, <<"a", "u", "t", "o">>, << >>, <<"N", "o", "n", "e">>, <<"2", "4", "b", "i", "t">> }

NoColorInputs == { EnvUnset, EnvValue(<< >>), EnvValue(<<"1">>) }

ColorTermInputs ==
  { EnvUnset, EnvNotUnicode, EnvValue(<<"t", "r", "u", "e", "c", "o", "l", "o", "r">>), EnvValue(<<"2", "4", "b", "i", "t">>), EnvValue(<<"x", "t", "r", "u", "e", "c", "o", "l", "o", "r">>),
    EnvValue(<<"2", "4", "b", "i", "t", "s">>), EnvValue(<<"y", "e", "s">>) }

TermInputs ==
  { EnvUnset, EnvNotUnicode, EnvValue(<<"x", "t", "e", "r", "m", "-", "2", "5", "6", "c", "o", "l", "o", "r">>), EnvValue(<<"2", "5", "6", "c", "o", "l", "o", "r">>), EnvValue(<<"x", "t", "e", "r", "m">>),
    EnvValue(<<"d", "u", "m", "b">>) }

InitDetect ==
  /\ pc = "init"
  /\ unicode_lf = 1
  /\ color_level = "None"
  /\ IdleColor
  /\ IdleText
  /\ IdleLayout
  /\ IdleWidth
  /\ IdleWidget
  /\ IdleLicense
  /\ IdleHistory
  /\ override_level \in OverrideInputs
  /\ env \in [NO_COLOR : NoColorInputs, COLORTERM : ColorTermInputs, TERM : TermInputs]

\* Renderer::detect(override_level)
Detect ==
  /\ pc = "init"
  /\ color_level' = detect(override_level, env)
  /\ pc' = "detected"
  /\ UNCHANGED << unicode_lf, color_name, color_spec, style_out, text_in, text_out,
                  config, widget_out, term_size, assembled, output_lines, render_calls, resolved_fg,
                  env_vars, width_budget, widget_vars, license_vars, history_vars >>

SpecDetect == InitDetect /\ [][Detect]_vars

(***************************************************************************)
(* Terminal geometry: LayoutEngine::terminal_width on a mode and a size    *)
(***************************************************************************)
FlexModes == { "full", "full-minus-40", "compact", "", "Full", "wide" }

\* crossterm reports the columns as a u16
ColumnCounts == (0..MaxColumns) \cup { CompactColumns, FallbackColumns, 65535 }

InitWidth ==
  /\ LayoutRest
  /\ color_level = "Basic16"
  /\ widget_out = << >>
  /\ term_size \in { None } \cup { Some(w) : w \in ColumnCounts }
  /\ \E mode \in FlexModes :
       config = Config(<< >>, <<"|">>, <<" ">>, FALSE, "default", mode, PowerlineOff)

\* LayoutEngine::terminal_width(config)
TerminalWidth ==
  /\ pc = "init"
  /\ width_budget' = Some(terminal_width(config, term_size))
  /\ pc' = "width"
  /\ UNCHANGED << unicode_lf, color_level, color_name, color_spec, style_out, text_in,
                  text_out, config, widget_out, term_size, assembled, output_lines, render_calls,
                  resolved_fg, env_vars, widget_vars, license_vars, history_vars >>

SpecWidth == InitWidth /\ [][TerminalWidth]_vars

(***************************************************************************)
(* Widgets: WidgetRegistry::render on session data                         *)
(***************************************************************************)
VimInputs == { None, Some(Vim(None)), Some(Vim(Some(<<"I", "N", "S", "E", "R", "T">>))) }

OutputStyleInputs ==
  { None, Some(OutputStyle(None)), Some(OutputStyle(Some(<<"d", "e", "f", "a", "u", "l", "t">>))),
    Some(OutputStyle(Some(<<"e", "x", "p", "l", "a", "n", "a", "t", "o", "r", "y">>))) }

\* durations whose quotients are exact in binary floating point (over 2) and
\* not (over 100: 29 and 57 hundredths come out as 28 and 56 per cent)
CostInputs ==
  { None }
  \cup { Some(Cost(t, a)) : t \in { None, Some(0), Some(2), Some(100) },
                            a \in { None, Some(0), Some(1), Some(29), Some(57) } }

\* metadata["char"]: not set, empty, one character, two
MetadataCharInputs == { None, Some(<< >>), Some(<<"-">>), Some(<<"=", "-">>) }

WidgetTypeInputs ==
  { "vim-mode", "output-style", "api-duration", "exceeds-tokens", "model",
    "flex-separator", "no-such-widget" }

InitWidget ==
  /\ pc = "init"
  /\ unicode_lf = 1
  /\ color_level = "None"
  /\ IdleColor
  /\ IdleText
  /\ IdleLayout
  /\ IdleEnv
  /\ IdleWidth
  /\ IdleLicense
  /\ IdleHistory
  /\ session \in { SessionData(v, o, c, e) :
                     v \in VimInputs, o \in OutputStyleInputs, c \in CostInputs,
                     e \in { None, Some(TRUE), Some(FALSE) } }
  /\ widget_call \in [widget_type : WidgetTypeInputs, raw_value : BOOLEAN,
                      metadata_char : MetadataCharInputs]
  /\ widget_result = None

\* WidgetRegistry::render(widget_type, data, config)
RenderWidget ==
  /\ pc = "init"
  /\ widget_result' =
       IF widget_call.widget_type \in RegisteredWidgets
       THEN Some(widget_render(widget_call.widget_type, session, widget_call))
       ELSE None
  /\ pc' = "widget"
  /\ UNCHANGED << unicode_lf, color_level, color_name, color_spec, style_out, text_in,
                  text_out, config, widget_out, term_size, assembled, output_lines, render_calls,
                  resolved_fg, env_vars, width_budget, session, widget_call,
                  license_vars, history_vars >>

SpecWidget == InitWidget /\ [][RenderWidget]_vars

(***************************************************************************)
(* License keys: LicenseValidator::validate_format                         *)
(***************************************************************************)
KeyPrefixInputs == { KEY_PREFIX, <<"C", "S", "-", "F", "R", "E", "E", "-">>, <<"c", "s", "-", "p", "r", "o", "-">>, << >> }

KeySegmentInputs == { <<"1", "a", "2", "B">>, <<"1", "2", "g", "4">>, <<"1", "2", "3">>, <<"1", "2", "3", "4", "5">>, <<"1", "2", E_ACUTE>> }

\* surrounding whitespace: <<leading, trailing>>
KeyPaddingInputs ==
  { << << >>, << >> >>, << <<" ">>, <<TAB, LF>> >>,
    << <<CR, LF, NBSP>>, <<VT, FF, IDEOGRAPHIC_SPACE, "U+2003", NEL, CR, LF>> >> }

RECURSIVE JoinSegments(_)
JoinSegments(segs) ==
  IF segs = << >> THEN << >>
  ELSE IF Len(segs) = 1 THEN segs[1]
  ELSE segs[1] \o <<"-">> \o JoinSegments(Tail(segs))

InitFormat ==
  /\ IdleAll
  /\ IdleEnv
  /\ IdleWidth
  /\ IdleWidget
  /\ IdleCheck
  /\ IdleActivation
  /\ IdleHistory
  /\ format_ok = None
  /\ \E n \in 0..MaxKeySegments :
       \E segs \in [1..n -> KeySegmentInputs], pre \in KeyPrefixInputs,
          pad \in KeyPaddingInputs :
         license_key = pad[1] \o pre \o JoinSegments(segs) \o pad[2]

\* LicenseValidator::validate_format(license_key)
ValidateFormat ==
  /\ pc = "init"
  /\ format_ok' = Some(validate_format(license_key))
  /\ pc' = "format"
  /\ UNCHANGED << unicode_lf, color_level, color_name, color_spec, style_out, text_in,
                  text_out, config, widget_out, term_size, assembled, output_lines, render_calls,
                  resolved_fg, env_vars, width_budget, widget_vars, license_key,
                  check_vars, activation_vars, history_vars >>

SpecFormat == InitFormat /\ [][ValidateFormat]_vars

(***************************************************************************)
(* License check: is_pro on a stored key and a cache                       *)
(***************************************************************************)
KeyFileInputs ==
  { None, Some(<< >>), Some(<<" ", LF>>), Some(<<CR, LF>>),
    Some(<<"C", "S", "-", "P", "R", "O", "-", "1", "a", "2", "B", "-", "9", "d", "8", "e", "-", "C", "4", "B", "1", "-", "7", "F", "0", "A">>),
    Some(<<" ", "C", "S", "-", "P", "R", "O", "-", "1", "a", "2", "B", "-", "9", "d", "8", "e", "-", "C", "4", "B", "1", "-", "7", "F", "0", "A", LF>>),
    Some(<<"C", "S", "-", "P", "R", "O", "-", "1", "a", "2", "B", "-", "9", "d", "8", "e", "-", "C", "4", "B", "1">>),
    Some(<<"C", "S", "-", "P", "R", "O", "-", "1", "a", "2", "B", "-", "9", "d", "8", "e", "-", "C", "4", "B", "1", "-", "8", "3", "1", "E", CR, LF>>),
    Some(<<"C", "S", "-", "P", "R", "O", "-", "A", "B", "C", "D", "-", "1", "2", "3", "4", "-", "E", "F", "5", "6", "-", "7", "c", "7", "0", LF>>),
    Some(<<"C", "S", "-", "P", "R", "O", "-", "A", "3", "F", "2", "-", "9", "D", "8", "E", "-", "C", "4", "B", "1", "-", "D", "1", "A", "1">>),
    Some(<<"C", "S", "-", "P", "R", "O", "-", "A", "3", "F", "2", "-", "9", "D", "8", "E", "-", "C", "4", "B", "1", "-", "D", "1", "A", "2">>) }

\* ages on both sides of the revalidation period and of the grace period
CacheInputs ==
  { None }
  \cup { Some(ValidationCache(v, t[1], t[2], t[3], a)) :
           v \in BOOLEAN,
           t \in { <<"Pro", None, pro_features>>,
                   <<"Lifetime", Some("2031-01-01T00:00:00Z"), <<"cost_tracking">> >>,
                   <<"Free", Some("2021-01-01T00:00:00Z"), << >> >> },
           a \in { -1, 0, REVALIDATION_HOURS - 1, REVALIDATION_HOURS,
                   OFFLINE_GRACE_DAYS * 24 - 1, OFFLINE_GRACE_DAYS * 24 } }

StorageInputs == { Storage(k, c) : k \in KeyFileInputs, c \in CacheInputs }

InitCheck ==
  /\ IdleAll
  /\ IdleEnv
  /\ IdleWidth
  /\ IdleWidget
  /\ IdleFormat
  /\ IdleActivation
  /\ IdleHistory
  /\ license_store \in StorageInputs
  /\ license_check = None

\* is_pro(), through check_pro()
CheckPro ==
  /\ pc = "init"
  /\ license_check' = Some(check_pro(license_store)
                           @@ [is_pro |-> is_pro(license_store)])
  /\ pc' = "pro"
  /\ UNCHANGED << unicode_lf, color_level, color_name, color_spec, style_out, text_in,
                  text_out, config, widget_out, term_size, assembled, output_lines, render_calls,
                  resolved_fg, env_vars, width_budget, widget_vars, format_vars,
                  license_store, activation_vars, history_vars >>

SpecCheck == InitCheck /\ [][CheckPro]_vars

(***************************************************************************)
(* License lifecycle: activate and deactivate on a license directory whose *)
(* writes and removals succeed or fail, the cache ageing in between        *)
(***************************************************************************)
ActivateInputs ==
  { << >>,
    <<"I", "N", "V", "A", "L", "I", "D">>,
    <<"C", "S", "-", "P", "R", "O", "-", "1", "a", "2", "B", "-", "9", "d", "8", "e", "-", "C", "4", "B", "1">>,
    <<"C", "S", "-", "P", "R", "O", "-", "1", "a", "2", "B", "-", "9", "d", "8", "e", "-", "C", "4", "B", "1", "-", "7", "F", "0", "G">>,
    <<"C", "S", "-", "P", "R", "O", "-", "1", "a", "2", "B", "-", "9", "d", "8", "e", "-", "C", "4", "B", "1", "-", "7", "F", "0", "A">>,
    <<"C", "S", "-", "P", "R", "O", "-", "1", "a", "2", "B", "-", "9", "d", "8", "e", "-", "C", "4", "B", "1", "-", "8", "3", "1", "E">>,
    <<NBSP, "C", "S", "-", "P", "R", "O", "-", "A", "B", "C", "D", "-", "1", "2", "3", "4", "-", "E", "F", "5", "6", "-", "7", "c", "7", "0", CR, LF>> }

\* the ages a cache is looked at: on both sides of the two periods
CacheAges ==
  { -1, 0, REVALIDATION_HOURS - 1, REVALIDATION_HOURS,
    OFFLINE_GRACE_DAYS * 24 - 1, OFFLINE_GRACE_DAYS * 24 }

\* directories at the start: no key file, a blank one, a key whose checksum is
\* right and one whose checksum is wrong, each with no cache or a cache valid or
\* not, fresh, in the grace period or past it
LifecycleStoreInputs ==
  { Storage(k, c) :
      k \in { None, Some(<<" ", LF>>),
              Some(<<"C", "S", "-", "P", "R", "O", "-", "1", "a", "2", "B", "-", "9", "d", "8", "e", "-", "C", "4", "B", "1", "-", "8", "3", "1", "E", CR, LF>>),
              Some(<<"C", "S", "-", "P", "R", "O", "-", "1", "a", "2", "B", "-", "9", "d", "8", "e", "-", "C", "4", "B", "1", "-", "7", "F", "0", "A">>) },
      c \in { None }
            \cup { Some(ValidationCache(v, t[1], t[2], t[3], a)) :
                     v \in BOOLEAN,
                     t \in { <<"Pro", None, pro_features>>,
                             <<"Lifetime", Some("2031-01-01T00:00:00Z"), <<"cost_tracking">> >> },
                     a \in { 0, REVALIDATION_HOURS, OFFLINE_GRACE_DAYS * 24 } } }

InitLifecycle ==
  /\ IdleAll
  /\ IdleEnv
  /\ IdleWidth
  /\ IdleWidget
  /\ IdleFormat
  /\ IdleActivation
  /\ IdleHistory
  /\ license_store \in LifecycleStoreInputs
  /\ license_check = None

InitStorage ==
  /\ IdleAll
  /\ IdleEnv
  /\ IdleWidth
  /\ IdleWidget
  /\ IdleFormat
  /\ IdleActivation
  /\ IdleHistory
  /\ license_store \in StorageInputs
  /\ license_check = None

LifecyclePcs ==
  { "init", "activate", "deactivate", "tick",
    "save_key", "remove_key", "save_cache", "remove_cache" }

lifecycle_frame ==
  << unicode_lf, color_level, color_name, color_spec, style_out, text_in,
     text_out, config, widget_out, term_size, assembled, output_lines, render_calls,
     resolved_fg, env_vars, width_budget, widget_vars, format_vars,
     license_check, history_vars >>

\* LicenseValidator::activate(key), each write succeeding, failing before the
\* file is opened or failing after it was truncated
Activate ==
  /\ pc \in LifecyclePcs
  /\ \E key \in ActivateInputs :
     \E key_io \in SaveKeyOutcomes(key), cache_io \in SaveCacheOutcomes :
       \E r \in { activate(license_store, key, key_io, cache_io) } :
         /\ activate_key' = key
         /\ activate_result' = Some(r.result)
         /\ license_store' = r.store
  /\ pc' = "activate"
  /\ storage_result' = None
  /\ UNCHANGED lifecycle_frame

\* LicenseValidator::deactivate(), each removal succeeding or failing
Deactivate ==
  /\ pc \in LifecyclePcs
  /\ \E key_io_ok \in BOOLEAN, cache_io_ok \in BOOLEAN :
       \E r \in { deactivate(license_store, key_io_ok, cache_io_ok) } :
         /\ storage_result' = Some(r.result)
         /\ license_store' = r.store
  /\ pc' = "deactivate"
  /\ activate_key' = << >>
  /\ activate_result' = None
  /\ UNCHANGED lifecycle_frame

\* time passes: Utc::now() moves away from the validated_at of the cache
Tick ==
  /\ pc \in LifecyclePcs
  /\ IsSome(license_store.cache)
  /\ \E a \in CacheAges :
       /\ a > Unwrap(license_store.cache).age
       /\ license_store' =
            [license_store EXCEPT !.cache = Some([Unwrap(license_store.cache)
                                                   EXCEPT !.age = a])]
  /\ pc' = "tick"
  /\ activate_key' = << >>
  /\ activate_result' = None
  /\ storage_result' = None
  /\ UNCHANGED lifecycle_frame

SpecLifecycle == InitLifecycle /\ [][Activate \/ Deactivate \/ Tick]_vars

(***************************************************************************)
(* License directory: the calls of LicenseStorage on their own             *)
(***************************************************************************)
SaveCacheInputs == { Unwrap(c) : c \in CacheInputs \ { None } }

\* LicenseStorage::save_key(key)
SaveKey ==
  /\ pc \in LifecyclePcs
  /\ \E key \in ActivateInputs :
     \E io \in SaveKeyOutcomes(key) :
       \E r \in { save_key(license_store, key, io) } :
         /\ storage_result' = Some(r.result)
         /\ license_store' = r.store
  /\ pc' = "save_key"
  /\ activate_key' = << >>
  /\ activate_result' = None
  /\ UNCHANGED lifecycle_frame

\* LicenseStorage::remove_key()
RemoveKey ==
  /\ pc \in LifecyclePcs
  /\ \E io_ok \in BOOLEAN :
       \E r \in { remove_key(license_store, io_ok) } :
         /\ storage_result' = Some(r.result)
         /\ license_store' = r.store
  /\ pc' = "remove_key"
  /\ activate_key' = << >>
  /\ activate_result' = None
  /\ UNCHANGED lifecycle_frame

\* LicenseStorage::save_cache(cache)
SaveCache ==
  /\ pc \in LifecyclePcs
  /\ \E cache \in SaveCacheInputs, io \in SaveCacheOutcomes :
       \E r \in { save_cache(license_store, cache, io) } :
         /\ storage_result' = Some(r.result)
         /\ license_store' = r.store
  /\ pc' = "save_cache"
  /\ activate_key' = << >>
  /\ activate_result' = None
  /\ UNCHANGED lifecycle_frame

\* LicenseStorage::remove_cache()
RemoveCache ==
  /\ pc \in LifecyclePcs
  /\ \E io_ok \in BOOLEAN :
       license_store' = remove_cache(license_store, io_ok)
  /\ storage_result' = None
  /\ pc' = "remove_cache"
  /\ activate_key' = << >>
  /\ activate_result' = None
  /\ UNCHANGED lifecycle_frame

SpecStorage ==
  InitStorage /\ [][SaveKey \/ RemoveKey \/ SaveCache \/ RemoveCache]_vars

(***************************************************************************)
(* Cost history: CostTracker::top_sessions on a sessions table             *)
(***************************************************************************)
StartTimeInputs == { 0, 1 }

\* session k costs k; sessions 1, 2 and 4 may cost 3 instead, to tie with
\* session 3: up to four sessions of one cost, more than the limit of a query
TiedSessions == { 1, 2, 4 }

UpsertInputs ==
  { s \in { SessionRecord(id, st, c) :
              id \in 1..MaxSessions, st \in StartTimeInputs, c \in 1..MaxSessions } :
      s.total_cost = s.id \/ (s.total_cost = 3 /\ s.id \in TiedSessions) }

TopQueryInputs ==
  { [from |-> f, to |-> t, limit |-> l] :
      f \in { 0, 1 }, t \in { 1, 2 }, l \in { 0, 3 } }

\* a database just created by CostTracker::open: init_schema leaves no rows
InitHistory ==
  /\ IdleAll
  /\ IdleEnv
  /\ IdleWidth
  /\ IdleWidget
  /\ IdleLicense
  /\ IdleHistory

\* the statement of upsert_session runs, or SQLite refuses it
UpsertOutcomes == { SqlOk, SqlOutcome("step", 0) }

\* the query of top_sessions runs, or SQLite refuses it when it is prepared,
\* when it is bound, or at a step: the first, or the one after any of the
\* rows of a query of limit 3
TopOutcomes ==
  { SqlOk, SqlOutcome("prepare", 0), SqlOutcome("bind", 0) }
  \cup { SqlOutcome("step", n) : n \in 0..3 }

HistoryPcs == { "init", "upsert", "top" }

\* CostTracker::upsert_session(session), on a table of at most MaxSessions rows
UpsertSession ==
  /\ pc \in HistoryPcs
  /\ \E record \in UpsertInputs, io \in UpsertOutcomes :
       \E r \in { upsert_session(sessions, record, io) } :
         /\ sessions' = r.rows
         /\ upsert_result' = Some(r.result)
         /\ sql_io' = io
  /\ top_result' = None
  /\ pc' = "upsert"
  /\ UNCHANGED << unicode_lf, color_level, color_name, color_spec, style_out, text_in,
                  text_out, config, widget_out, term_size, assembled, output_lines, render_calls,
                  resolved_fg, env_vars, width_budget, widget_vars, license_vars,
                  top_query >>

\* CostTracker::top_sessions(from, to, limit)
TopSessions ==
  /\ pc \in HistoryPcs
  /\ \E q \in TopQueryInputs, io \in TopOutcomes :
       /\ top_query' = q
       /\ sql_io' = io
       /\ \E r \in top_sessions(sessions, q.from, q.to, q.limit, io) :
            /\ top_result' = IF r.panicked THEN None ELSE Some(r.rows)
            /\ pc' = IF r.panicked THEN "top_panicked" ELSE "top"
  /\ upsert_result' = None
  /\ UNCHANGED << unicode_lf, color_level, color_name, color_spec, style_out, text_in,
                  text_out, config, widget_out, term_size, assembled, output_lines, render_calls,
                  resolved_fg, env_vars, width_budget, widget_vars, license_vars,
                  sessions >>

SpecHistory == InitHistory /\ [][UpsertSession \/ TopSessions]_vars

(***************************************************************************)
(* Palette: #RRGGBB literals and palette indices at every colour level     *)
(***************************************************************************)
HexChars == <<"0", "1", "2", "3", "4", "5", "6", "7", "8", "9",
              "a", "b", "c", "d", "e", "f">>

\* a channel value as the two hex digits of a #RRGGBB literal
Hex2(n) == <<HexChars[(n \div 16) + 1], HexChars[(n % 16) + 1]>>

\* channel values on both sides of every quantisation step and of both ends of
\* the grayscale ramp
ChannelSamples ==
  { 0, 7, 8, 9, 50, 51, 101, 102, 152, 153, 203, 204, 247, 248, 249, 254, 255 }

U8 == 0..255

PaletteInputs ==
  { <<"#">> \o Hex2(r) \o Hex2(g) \o Hex2(b) :
      r \in ChannelSamples, g \in ChannelSamples, b \in ChannelSamples }
  \cup { <<"#">> \o Hex2(v) \o Hex2(v) \o Hex2(v) : v \in U8 }
  \cup { Dec(n) : n \in U8 }

InitPalette ==
  /\ pc = "init"
  /\ unicode_lf = 1
  /\ color_level \in ColorLevels
  /\ color_name \in PaletteInputs
  /\ color_spec = Named("white")
  /\ style_out = NoStyle
  /\ IdleText
  /\ IdleLayout
  /\ IdleExt

SpecPalette == InitPalette /\ [][NextColor]_vars

(***************************************************************************)
(* Style resets: styled lines at every colour level                        *)
(***************************************************************************)
\* slots with and without colour, background and bold, a padded slot, a slot
\* merged with the next one and a flex slot
ResetSlots ==
  { Slot("model", None, None, None, None, FALSE, None),
    Slot("model", Some(<<"#", "1", "a", "2", "b", "3", "c">>), Some(Red), Some(TRUE),
         Some(<<" ">>), FALSE, None),
    Slot("cwd", None, Some(<<"2", "0", "0">>), None, None, TRUE, None),
    Slot("cwd", None, None, Some(TRUE), None, FALSE, None),
    Slot("version", Some(MalformedColor), None, None, None, FALSE, None),
    Slot("flex-separator", Some(Blue), None, None, None, FALSE, Some(<<"-">>)) }

ResetPowerlines ==
  { PowerlineOff,
    Powerline(TRUE, <<PL_RIGHT>>, None, None, TRUE),
    Powerline(TRUE, <<PL_RIGHT>>, Some(<<PL_LEFT>>), Some(<<PL_RIGHT>>), TRUE) }

ResetLines ==
  UNION { [1..n -> ResetSlots] : n \in 0..MaxWidgets }

InitReset ==
  /\ LayoutRest
  /\ color_level \in ColorLevels
  /\ term_size \in { Some(3), Some(MaxTermWidth + 2) }
  /\ \E first \in ResetLines, pl \in ResetPowerlines, two \in BOOLEAN :
       /\ config = Config(IF two
                          THEN <<first, <<Slot("model", None, None, None, None, FALSE, None)>> >>
                          ELSE <<first>>,
                          <<"|">>, << >>, FALSE, "default", "full", pl)
       /\ widget_out = IF two
                       THEN <<[k \in 1..Len(first) |-> VisibleOutput(<<"a">>, None)],
                              <<VisibleOutput(<<"a">>, Some(Green))>> >>
                       ELSE <<[k \in 1..Len(first) |-> VisibleOutput(<<"a">>, None)]>>

SpecReset == InitReset /\ [][Render]_vars

\* every operation of the model, from any of the inputs above
Init ==
  \/ InitReset \/ InitPalette \/ InitLines
  \/ InitColor \/ InitStrip \/ InitStd \/ InitFlex \/ InitVis \/ InitAlign
  \/ InitStyledLines
  \/ InitResolve \/ InitDetect \/ InitWidth \/ InitPowerline
  \/ InitWidget \/ InitFormat \/ InitCheck \/ InitLifecycle \/ InitStorage
  \/ InitHistory

Next ==
  \/ ParseColor \/ Style \/ StripAnsi \/ Render \/ ResolveFg
  \/ Detect \/ TerminalWidth \/ RenderWidget \/ ValidateFormat
  \/ CheckPro \/ UpsertSession \/ TopSessions
  \/ SaveKey \/ RemoveKey \/ SaveCache \/ RemoveCache
  \/ Activate \/ Deactivate \/ Tick

Spec == Init /\ [][Next]_vars

(***************************************************************************)
(* Properties                                                              *)
(***************************************************************************)
MaxWidthBudget == terminal_width(config, term_size)

RECURSIVE PartsWidth(_)
PartsWidth(parts) ==
  IF parts = << >> THEN 0 ELSE Head(parts).width + PartsWidth(Tail(parts))

IsWidgetPart(p) == p.kind = "widget"
EmittedSlots(parts) ==
  LET ws == SelectSeq(parts, IsWidgetPart) IN [j \in 1..Len(ws) |-> ws[j].slot]

IsChipPart(p) == p.kind = "chip"
EmittedChips(parts) ==
  LET ws == SelectSeq(parts, IsChipPart) IN [j \in 1..Len(ws) |-> ws[j].slot]

\* a produced line that went through the standard loop of assemble_line
StdLine(a) == ~config.powerline.enabled /\ ~has_flex(a.widgets)
\* a produced line that went through assemble_line_with_flex
FlexLine(a) == ~config.powerline.enabled /\ has_flex(a.widgets)

\* C1: in the standard assembler the display widths of the emitted widgets, plus
\* twice the padding width of each, plus the widths of the emitted separators,
\* never exceed max_width.
C1_EmittedWidthWithinMax ==
  pc = "rendered" =>
    \A i \in 1..Len(assembled) :
      StdLine(assembled[i]) => PartsWidth(assembled[i].parts) <= MaxWidthBudget

\* C2: the standard assembler drops widgets strictly in trailing order: the
\* emitted widgets are a prefix of the visible widgets, in configuration order.
C2_DropsOnlyTrailing ==
  pc = "rendered" =>
    \A i \in 1..Len(assembled) :
      StdLine(assembled[i]) =>
        \E k \in 0..Len(assembled[i].widgets) :
          EmittedSlots(assembled[i].parts)
            = [j \in 1..k |-> assembled[i].widgets[j].slot]

\* C2 witness: a line of three widgets of which only the first was emitted, the
\* second being too wide although the third alone would still fit.
C2_Witness ==
  /\ pc = "rendered"
  /\ \E i \in 1..Len(assembled) :
       /\ StdLine(assembled[i])
       /\ Len(assembled[i].widgets) = 3
       /\ EmittedSlots(assembled[i].parts) = <<1>>
       /\ assembled[i].total + assembled[i].widgets[3].output.display_width
            <= MaxWidthBudget

\* C3: in the flex assembler fill_width = max(0, max_width - fixed_width), and the
\* text that replaces each flex slot has display width fill_width exactly, for
\* every fill string the flex-separator widget returns.
C3_FlexFillExact ==
  pc = "rendered" =>
    \A i \in 1..Len(assembled) :
      FlexLine(assembled[i]) =>
        /\ assembled[i].fill
             = (IF MaxWidthBudget > assembled[i].total
                THEN MaxWidthBudget - assembled[i].total ELSE 0)
        /\ \A j \in 1..Len(assembled[i].parts) :
             assembled[i].parts[j].kind = "fill"
               => assembled[i].parts[j].width = assembled[i].fill

\* what a terminal shows of a string: CSI sequences (ESC [ ... final letter) and
\* OSC sequences (ESC ] ... BEL) left out
\* characters first..last of s read in a mode: what is shown of them and the
\* mode they leave; "intro" is the mode between ESC and the [ or ] after it
Shown(chars, mode) == [chars |-> chars, mode |-> mode]

RECURSIVE ShownOfChars(_, _, _, _)
ShownOfChars(s, first, last, mode) ==
  IF first > last THEN Shown(<< >>, mode)
  ELSE IF first = last
  THEN (IF mode = "csi"
        THEN Shown(<< >>, IF is_ascii_alphabetic(s[first]) THEN "text" ELSE "csi")
        ELSE IF mode = "osc"
        THEN Shown(<< >>, IF s[first] = BEL THEN "text" ELSE "osc")
        ELSE IF mode = "intro"
        THEN Shown(<< >>, IF s[first] = "[" THEN "csi" ELSE "osc")
        ELSE IF s[first] = ESC /\ first < Len(s) /\ s[first + 1] \in { "[", "]" }
        THEN Shown(<< >>, "intro")
        ELSE Shown(<<s[first]>>, "text"))
  ELSE With(ShownOfChars(s, first, (first + last) \div 2, mode), LAMBDA head :
         With(ShownOfChars(s, (first + last) \div 2 + 1, last, head.mode),
              LAMBDA rest : Shown(head.chars \o rest.chars, rest.mode)))

VisibleChars(s, mode) == ShownOfChars(s, 1, Len(s), mode).chars

VisibleWidth(s) == UnicodeWidth(VisibleChars(s, "text"), unicode_lf)

AutoAligns ==
  config.powerline.enabled /\ config.powerline.auto_align /\ Len(assembled) > 1

WidestAssembled ==
  SeqMax([i \in 1..Len(assembled) |-> VisibleWidth(assembled[i].line)])

\* C4: with powerline and auto_align on and more than one line produced, every
\* returned line has the same visible width, the maximum over the assembled
\* lines; a shorter line is changed only by appending max - own plain spaces and
\* the widest is unchanged.  Otherwise no line is changed.
C4_AutoAlign ==
  pc = "rendered" =>
    /\ Len(output_lines) = Len(assembled)
    /\ \A i \in 1..Len(assembled) :
         IF AutoAligns
         THEN /\ VisibleWidth(output_lines[i]) = WidestAssembled
              /\ output_lines[i]
                   = assembled[i].line
                     \o Repeat(<<" ">>, WidestAssembled - VisibleWidth(assembled[i].line))
         ELSE output_lines[i] = assembled[i].line

\* C5: the foreground colour is the slot's explicit colour if set, else the
\* output's colour hint if present, else the theme's role colour for the widget
\* type if the theme maps it, else none.
C5_FgPriorityChain ==
  pc = "resolved" =>
    LET wc == config.lines[1][1]
        hint == widget_out[1][1].color_hint
        themed == role_for_widget(Theme_get(config.theme), wc.widget_type)
    IN  /\ IsSome(wc.color) => resolved_fg = wc.color
        /\ ~IsSome(wc.color) /\ IsSome(hint) => resolved_fg = hint
        /\ ~IsSome(wc.color) /\ ~IsSome(hint) => resolved_fg = themed

\* C5 witness: explicit colour red, hint green and a theme role colour all
\* present, and red was resolved.
C5_Witness ==
  /\ pc = "resolved"
  /\ config.lines[1][1].color = Some(Red)
  /\ widget_out[1][1].color_hint = Some(Green)
  /\ IsSome(role_for_widget(Theme_get(config.theme), config.lines[1][1].widget_type))
  /\ resolved_fg = Some(Red)

HasEscape(s) == \E k \in 1..Len(s) : s[k] = ESC

\* C6: at colour level None, fg, bg, bold and reset are the empty string for
\* every ColorSpec, so a line rendered at level None holds no escape character
\* of the engine's: each widget or chip is its padding, the text its widget
\* returned and its padding again, every other part is free of escapes, and the
\* line returned is these parts joined, followed by plain spaces at most.
C6_NoneLevelEmitsNothing ==
  color_level = "None" =>
    /\ pc = "styled" => /\ style_out.fg = << >>
                        /\ style_out.bg = << >>
                        /\ style_out.bold = << >>
                        /\ style_out.reset = << >>
    /\ pc = "rendered" =>
         \A i \in 1..Len(assembled) :
           /\ \A k \in 1..Len(assembled[i].parts) :
                IF assembled[i].parts[k].kind \in {"widget", "chip"}
                THEN assembled[i].parts[k].text
                       = UnwrapOr(config.lines[assembled[i].from][assembled[i].parts[k].slot].padding,
                                  config.default_padding)
                         \o widget_out[assembled[i].from][assembled[i].parts[k].slot].text
                         \o UnwrapOr(config.lines[assembled[i].from][assembled[i].parts[k].slot].padding,
                                     config.default_padding)
                ELSE ~HasEscape(assembled[i].parts[k].text)
           /\ assembled[i].line = JoinParts(assembled[i].parts)
           /\ \E n \in 0..Len(output_lines[i]) :
                output_lines[i] = assembled[i].line \o Repeat(<<" ">>, n)

\* C6 witness: an RGB colour was styled at level None.
C6_Witness ==
  /\ pc = "styled"
  /\ color_level = "None"
  /\ color_spec.tag = "Rgb"

HexDigitValue(ch) ==
  CASE ch = "0" -> 0 [] ch = "1" -> 1 [] ch = "2" -> 2 [] ch = "3" -> 3
    [] ch = "4" -> 4 [] ch = "5" -> 5 [] ch = "6" -> 6 [] ch = "7" -> 7
    [] ch = "8" -> 8 [] ch = "9" -> 9
    [] ch \in {"a", "A"} -> 10 [] ch \in {"b", "B"} -> 11
    [] ch \in {"c", "C"} -> 12 [] ch \in {"d", "D"} -> 13
    [] ch \in {"e", "E"} -> 14 [] ch \in {"f", "F"} -> 15

HexDigitSet == AsciiDigit \cup {"a","b","c","d","e","f","A","B","C","D","E","F"}

IsHexLiteral(s) ==
  Len(s) = 7 /\ s[1] = "#" /\ \A i \in 2..7 : s[i] \in HexDigitSet

HexByte(s, i) == 16 * HexDigitValue(s[i]) + HexDigitValue(s[i + 1])

\* the fields of s between separators ch
RECURSIVE SplitOn(_, _, _)
SplitOn(s, ch, cur) ==
  IF s = << >> THEN <<cur>>
  ELSE IF Head(s) = ch THEN <<cur>> \o SplitOn(Tail(s), ch, << >>)
  ELSE SplitOn(Tail(s), ch, Append(cur, Head(s)))

\* the decimal r;g;b triple carried by a 24-bit foreground sequence, << >> when
\* seq is not ESC [ 38 ; 2 ; r ; g ; b m
FgTriple(seq) ==
  IF Len(seq) > 8 /\ SubSeq(seq, 1, 7) = <<ESC, "[", "3", "8", ";", "2", ";">>
     /\ seq[Len(seq)] = "m"
  THEN LET fields == SplitOn(SubSeq(seq, 8, Len(seq) - 1), ";", << >>) IN
       IF Len(fields) = 3 /\ \A k \in 1..3 : IsSome(from_str_radix_u8(fields[k], 10))
       THEN [k \in 1..3 |-> Unwrap(from_str_radix_u8(fields[k], 10))]
       ELSE << >>
  ELSE << >>

\* C7: for every #RRGGBB literal of hex digits parse_color yields Rgb with the
\* byte values of RR, GG and BB, and at level TrueColor fg emits the 24-bit
\* foreground sequence carrying exactly that triple.
C7_HexRoundTrip ==
  pc \in {"parsed", "styled"} /\ IsHexLiteral(color_name) =>
    /\ color_spec = Rgb(HexByte(color_name, 2), HexByte(color_name, 4),
                        HexByte(color_name, 6))
    /\ pc = "styled" /\ color_level = "TrueColor" =>
         FgTriple(style_out.fg) = <<HexByte(color_name, 2), HexByte(color_name, 4),
                                    HexByte(color_name, 6)>>

\* C7 witness: "#1a2b3c" at TrueColor gave ESC[38;2;26;43;60m.
C7_Witness ==
  /\ pc = "styled"
  /\ color_level = "TrueColor"
  /\ color_name = <<"#", "1", "a", "2", "b", "3", "c">>
  /\ style_out.fg = <<ESC, "[", "3", "8", ";", "2", ";", "2", "6", ";", "4", "3", ";",
                      "6", "0", "m">>

\* C8: for a string of printable characters, SGR and OSC sequences, the width
\* measured after strip_ansi is the sum of the cell widths of the visible
\* characters only; no character of an escape sequence is counted.
C8_StripThenWidthIsVisibleWidth ==
  pc = "stripped" =>
    UnicodeWidth(text_out, unicode_lf) = VisibleWidth(text_in)

\* the configuration and widget outputs with every invisible slot removed
RECURSIVE KeepShown(_, _, _)
KeepShown(line_config, line_out, k) ==
  IF k > Len(line_config) THEN << >>
  ELSE LET o == registry_render(line_config[k], line_out[k]) IN
       (IF IsSome(o) /\ ~Unwrap(o).visible THEN << >> ELSE <<k>>)
       \o KeepShown(line_config, line_out, k + 1)

ShownConfig ==
  [config EXCEPT !.lines =
     [l \in 1..Len(config.lines) |->
        LET keep == KeepShown(config.lines[l], widget_out[l], 1) IN
        [j \in 1..Len(keep) |-> config.lines[l][keep[j]]]]]

ShownOutputs ==
  [l \in 1..Len(config.lines) |->
     LET keep == KeepShown(config.lines[l], widget_out[l], 1) IN
     [j \in 1..Len(keep) |-> widget_out[l][keep[j]]]]

\* C9: the lines render returns are those it returns for the same configuration
\* with every slot whose output is invisible removed, in the standard, flex and
\* powerline assemblers alike; and render panics on the one exactly when it
\* panics on the other, the colours of an invisible slot never being parsed.
C9_InvisibleSlotsLeaveNoTrace ==
  pc \in {"rendered", "panicked"} =>
    /\ output_lines
         = render(LayoutEngine(ShownConfig, color_level, unicode_lf),
                  ShownOutputs, term_size).output_lines
    /\ pc = "panicked"
         <=> render(LayoutEngine(ShownConfig, color_level, unicode_lf),
                    ShownOutputs, term_size).panicked

\* C9 witness: powerline, an invisible slot with merge_next and a background
\* colour between two visible chips, and a line was produced.
C9_Witness ==
  /\ pc = "rendered"
  /\ config.powerline.enabled
  /\ Len(output_lines) = 1
  /\ Len(config.lines[1]) = 3
  /\ ~widget_out[1][2].visible
  /\ config.lines[1][2].merge_next
  /\ config.lines[1][2].background_color = Some(Red)
  /\ EmittedChips(assembled[1].parts) = <<1, 3>>

IsColorName(s) == \E i \in 1..Len(ColorNameTable) : ColorNameTable[i][1] = s
IsPaletteIndex(s) == IsSome(from_str_radix_u8(s, 10))

\* C10: parse_color never fails and returns exactly one variant: a colour name
\* gives Named, a #RRGGBB literal gives Rgb, and every unrecognised string,
\* malformed 7-byte '#' strings included, gives Named("white").
C10_ParseColorTotal ==
  pc # "init" =>
    /\ color_spec.tag \in {"Named", "Ansi256", "Rgb"}
    /\ IsColorName(color_name) => color_spec.tag = "Named"
    /\ IsHexLiteral(color_name) => color_spec.tag = "Rgb"
    /\ ~IsColorName(color_name) /\ ~IsHexLiteral(color_name)
         /\ ~IsPaletteIndex(color_name) => color_spec = Named("white")

\* the level the override and the environment call for: the override, then
\* NO_COLOR present, then COLORTERM containing "truecolor" or "24bit", then TERM
\* containing "256color", then Basic16
ExpectedLevel ==
  CASE override_level = <<"n", "o", "n", "e">> -> "None"
    [] override_level = <<"1", "6">> -> "Basic16"
    [] override_level = <<"2", "5", "6">> -> "Color256"
    [] override_level = <<"t", "r", "u", "e", "c", "o", "l", "o", "r">> -> "TrueColor"
    [] OTHER ->
         IF env.NO_COLOR.set THEN "None"
         ELSE IF /\ env.COLORTERM.set /\ env.COLORTERM.unicode
                 /\ \/ contains(env.COLORTERM.value, <<"t", "r", "u", "e", "c", "o", "l", "o", "r">>)
                    \/ contains(env.COLORTERM.value, <<"2", "4", "b", "i", "t">>)
              THEN "TrueColor"
         ELSE IF /\ env.TERM.set /\ env.TERM.unicode
                 /\ contains(env.TERM.value, <<"2", "5", "6", "c", "o", "l", "o", "r">>)
              THEN "Color256"
         ELSE "Basic16"

\* C11: Renderer::detect returns the level of an explicit override none/16/256/
\* truecolor whatever the environment; otherwise None if NO_COLOR is present,
\* else TrueColor if COLORTERM contains "truecolor" or "24bit", else Color256 if
\* TERM contains "256color", else Basic16, in that order.
C11_DetectOrder ==
  pc = "detected" => color_level = ExpectedLevel

\* the sixteen basic SGR colour sequences
BasicFgSequences == { Sgr(Dec(n)) : n \in (30..37) \cup (90..97) }
BasicBgSequences == { Sgr(Dec(n)) : n \in (40..47) \cup (100..107) }

\* C12: at level Basic16, fg and bg emit only one of the 16 basic SGR colour
\* codes for every ColorSpec: a Named colour its own code, every Ansi256 and Rgb
\* colour the fixed default code, and never a 38;5/48;5 or 38;2/48;2 sequence.
C12_Basic16OnlyBasicCodes ==
  (pc = "styled" /\ color_level = "Basic16") =>
    /\ style_out.fg \in BasicFgSequences
    /\ style_out.bg \in BasicBgSequences
    /\ color_spec.tag = "Named" =>
         /\ style_out.fg = Sgr(Dec(NamedFgCode(color_spec.name)))
         /\ style_out.bg = Sgr(Dec(NamedBgCode(color_spec.name)))
    /\ color_spec.tag # "Named" =>
         /\ style_out.fg = Sgr(Dec(NamedFgCode("")))
         /\ style_out.bg = Sgr(Dec(NamedBgCode("")))

\* the queried column count, 120 when the query fails
QueriedColumns == IF term_size = None THEN 120 ELSE term_size[1]

\* C13: with W the queried column count (120 when the query fails), the budget
\* is W for mode "full", W minus 40 for "full-minus-40", 60 for "compact"
\* whatever W is, and for every other mode the value of "full-minus-40"; the
\* subtraction never underflows (W < 40 yields 0).
C13_TerminalWidthModes ==
  pc = "width" =>
    /\ IsSome(width_budget)
    /\ width_budget[1] =
         CASE config.flex_mode = "full" -> QueriedColumns
           [] config.flex_mode = "compact" -> 60
           [] OTHER -> IF QueriedColumns < 40 THEN 0 ELSE QueriedColumns - 40

\* an unrecognised mode on a terminal narrower than the reserved columns
C13_Witness ==
  /\ pc = "width"
  /\ config.flex_mode = "wide"
  /\ term_size = Some(39)
  /\ width_budget = Some(0)

\* the background configured for slot s of configured line l, "black" when unset
ConfiguredBg(l, s) ==
  UnwrapOr(config.lines[l][s].background_color, <<"b", "l", "a", "c", "k">>)

IsPrefix(pre, s) == Len(pre) <= Len(s) /\ SubSeq(s, 1, Len(pre)) = pre

\* C14: every transition glyph emitted between two adjacent chips has the
\* previous chip's background as foreground and the current chip's background as
\* background, a chip's background being its slot's background_color or "black";
\* each chip is rendered on its own background.
C14_PowerlineChaining ==
  (pc = "rendered" /\ config.powerline.enabled) =>
    \A i \in 1..Len(assembled) :
      \A k \in 1..Len(assembled[i].parts) :
        /\ assembled[i].parts[k].kind = "transition" =>
             /\ 1 < k /\ k < Len(assembled[i].parts)
             /\ assembled[i].parts[k - 1].kind = "chip"
             /\ assembled[i].parts[k + 1].kind = "chip"
             /\ assembled[i].parts[k].text
                  = fg(color_level,
                       parse_color(ConfiguredBg(assembled[i].from,
                                                assembled[i].parts[k - 1].slot)))
                    \o bg(color_level,
                          parse_color(ConfiguredBg(assembled[i].from,
                                                   assembled[i].parts[k + 1].slot)))
                    \o config.powerline.separator \o reset(color_level)
        /\ assembled[i].parts[k].kind = "chip" =>
             IsPrefix(bg(color_level,
                         parse_color(ConfiguredBg(assembled[i].from,
                                                  assembled[i].parts[k].slot))),
                      assembled[i].parts[k].text)

\* a red chip, a transition, a blue chip, a transition and a chip without a
\* configured background
C14_Witness ==
  /\ pc = "rendered" /\ config.powerline.enabled
  /\ \E i \in 1..Len(assembled) :
       \E k \in 1..(Len(assembled[i].parts) - 4) :
         /\ [j \in 1..5 |-> assembled[i].parts[k + j - 1].kind]
              = <<"chip", "transition", "chip", "transition", "chip">>
         /\ config.lines[assembled[i].from][assembled[i].parts[k].slot].background_color
              = Some(Red)
         /\ config.lines[assembled[i].from][assembled[i].parts[k + 2].slot].background_color
              = Some(Blue)
         /\ config.lines[assembled[i].from][assembled[i].parts[k + 4].slot].background_color
              = None

LastOf(s) == s[Len(s)]

\* C15: a configured start cap is emitted first with the background of the first
\* chip on the line as foreground; a configured end cap is emitted last with the
\* background of the last chip actually rendered as foreground, also when
\* trailing chips were dropped; both are emitted whatever budget remains.
C15_PowerlineCaps ==
  (pc = "rendered" /\ config.powerline.enabled) =>
    \A i \in 1..Len(assembled) :
      /\ IsSome(config.powerline.start_cap) =>
           /\ assembled[i].parts # << >>
           /\ assembled[i].parts[1].kind = "start_cap"
           /\ \A w \in 1..Len(assembled[i].widgets) :
                (/\ NotFlex(assembled[i].widgets[w])
                 /\ \A v \in 1..(w - 1) : ~NotFlex(assembled[i].widgets[v]))
                => assembled[i].parts[1].text
                     = fg(color_level,
                          parse_color(ConfiguredBg(assembled[i].from,
                                                   assembled[i].widgets[w].slot)))
                       \o Unwrap(config.powerline.start_cap) \o reset(color_level)
      /\ IsSome(config.powerline.end_cap) =>
           /\ assembled[i].parts # << >>
           /\ LastOf(assembled[i].parts).kind = "end_cap"
           /\ EmittedChips(assembled[i].parts) # << >> =>
                LastOf(assembled[i].parts).text
                  = fg(color_level,
                       parse_color(ConfiguredBg(assembled[i].from,
                                                LastOf(EmittedChips(assembled[i].parts)))))
                    \o Unwrap(config.powerline.end_cap) \o reset(color_level)

\* the optional session-data field the called widget displays is missing
DisplayedFieldAbsent ==
  CASE widget_call.widget_type = "vim-mode" ->
         session.vim = None \/ session.vim[1].mode = None
    [] widget_call.widget_type = "output-style" ->
         session.output_style = None \/ session.output_style[1].name = None
    [] widget_call.widget_type = "api-duration" ->
         \/ session.cost = None
         \/ session.cost[1].total_duration_ms = None
         \/ session.cost[1].total_api_duration_ms = None
    [] widget_call.widget_type = "exceeds-tokens" ->
         session.exceeds_200k_tokens = None
    [] OTHER -> FALSE

\* C16: every widget reports visible = false whenever the optional session-data
\* field it displays is missing (vim-mode without a vim mode, api-duration
\* without the cost block or either duration, output-style without a style
\* name) and never produces a visible output from absent data.
C16_AbsentDataIsInvisible ==
  (pc = "widget" /\ IsSome(widget_result) /\ DisplayedFieldAbsent)
    => ~widget_result[1].visible

\* s without its surrounding whitespace: the longest slice of s that neither
\* starts nor ends with a whitespace character
Trimmed(s) ==
  LET inner == { <<a, b>> \in (1..Len(s)) \X (1..Len(s)) :
                   /\ a <= b
                   /\ s[a] \notin White_Space /\ s[b] \notin White_Space
                   /\ \A k \in (1..(a - 1)) \cup ((b + 1)..Len(s)) :
                        s[k] \in White_Space }
  IN  IF inner = {} THEN << >>
      ELSE LET ab == CHOOSE x \in inner : TRUE IN SubSeq(s, ab[1], ab[2])

\* CS-PRO-XXXX-XXXX-XXXX-XXXX, X an ASCII hex digit, position by position
IsLicenseKey(t) ==
  /\ Len(t) = 26
  /\ SubSeq(t, 1, 7) = <<"C", "S", "-", "P", "R", "O", "-">>
  /\ \A k \in 8..26 :
       IF k \in {12, 17, 22} THEN t[k] = "-" ELSE t[k] \in HexDigitSet

\* C17: validate_format returns true exactly for keys that, after trimming
\* surrounding whitespace, are the prefix "CS-PRO-" followed by exactly four
\* '-'-separated segments of exactly four ASCII hex digits of either case; false
\* for a wrong prefix, too few or too many segments, a segment of wrong length, a
\* non-hex character and the empty string.
C17_ValidateFormatExact ==
  pc = "format" =>
    /\ IsSome(format_ok)
    /\ format_ok[1] <=> IsLicenseKey(Trimmed(license_key))

\* a well-formed key between surrounding whitespace, accepted
C17_Witness ==
  /\ pc = "format"
  /\ format_ok = Some(TRUE)
  /\ Len(license_key) > 26

\* license.key exists and holds more than whitespace
HasStoredKey ==
  /\ IsSome(license_store.key_file)
  /\ \E k \in 1..Len(license_store.key_file[1]) :
       license_store.key_file[1][k] \notin White_Space

\* C18: check_pro returns Some(info) if and only if a non-empty key is stored and
\* validate returns status Valid for it; None when no key is stored and for
\* every other status (Invalid, Expired, GracePeriod); is_pro is true exactly
\* when check_pro is Some.
C18_CheckProOnlyValid ==
  pc = "pro" =>
    /\ IsSome(license_check)
    /\ HasStoredKey =>
         /\ IsSome(license_check[1].validated)
         /\ license_check[1].validated[1].key = Trimmed(license_store.key_file[1])
    /\ IsSome(license_check[1].pro_info)
         <=> /\ HasStoredKey
             /\ license_check[1].validated[1].status = "Valid"
    /\ IsSome(license_check[1].pro_info)
         => license_check[1].pro_info = license_check[1].validated
    /\ license_check[1].is_pro <=> IsSome(license_check[1].pro_info)

\* a stored key that validate finds Valid, and is_pro true
C18_Witness ==
  /\ pc = "pro"
  /\ HasStoredKey
  /\ license_check[1].validated[1].status = "Valid"
  /\ license_check[1].is_pro

\* the rows of the table whose start_time is in [from, to)
RowsInRange ==
  { r \in sessions : top_query.from <= r.start_time /\ r.start_time < top_query.to }

\* C19 as the claim states it: top_sessions(from, to, limit) returns at most
\* limit sessions, each with from <= start_time < to, in non-increasing
\* total_cost order, and no in-range session left out costs more than a
\* returned one (of 5 in-range sessions of distinct cost and limit 3, the three
\* costliest in descending order).
C19_TopSessions ==
  pc = "top" =>
    /\ IsSome(top_result)
    /\ Len(top_result[1]) <= top_query.limit
    /\ \A k \in 1..Len(top_result[1]) : top_result[1][k] \in RowsInRange
    /\ \A j, k \in 1..Len(top_result[1]) : j # k => top_result[1][j] # top_result[1][k]
    /\ \A k \in 1..(Len(top_result[1]) - 1) :
         top_result[1][k].total_cost >= top_result[1][k + 1].total_cost
    /\ \A r \in RowsInRange :
         (\A k \in 1..Len(top_result[1]) : top_result[1][k] # r)
           => /\ Len(top_result[1]) = top_query.limit
              /\ \A k \in 1..Len(top_result[1]) :
                   r.total_cost <= top_result[1][k].total_cost

\* C19, with the statements SQLite refuses: when top_sessions returns, it
\* returns at most limit sessions, each with from <= start_time < to, no
\* session twice, in non-increasing total_cost order, and no in-range session
\* left out costs more than a returned one; when no statement was refused it
\* returns limit sessions or every in-range one (of 5 in-range sessions of
\* distinct cost and limit 3, the three costliest in descending order); when a
\* step was refused it returns the rows handed out before it; it returns
\* exactly when prepare and query_map were not refused, and panics otherwise.
C19_TopSessionsAnswered ==
  /\ pc = "top_panicked" => sql_io.kind \in { "prepare", "bind" } /\ top_result = None
  /\ pc = "top" =>
       /\ sql_io.kind \in { "ok", "step" }
       /\ IsSome(top_result)
       /\ Len(top_result[1]) <= top_query.limit
       /\ \A k \in 1..Len(top_result[1]) : top_result[1][k] \in RowsInRange
       /\ \A j, k \in 1..Len(top_result[1]) : j # k => top_result[1][j] # top_result[1][k]
       /\ \A k \in 1..(Len(top_result[1]) - 1) :
            top_result[1][k].total_cost >= top_result[1][k + 1].total_cost
       /\ \A r \in RowsInRange :
            (\A k \in 1..Len(top_result[1]) : top_result[1][k] # r)
              => /\ sql_io.kind = "ok" => Len(top_result[1]) = top_query.limit
                 /\ \A k \in 1..Len(top_result[1]) :
                      r.total_cost <= top_result[1][k].total_cost
       /\ sql_io.kind = "step" => Len(top_result[1]) = sql_io.rows

\* five in-range sessions of distinct cost, limit 3, no statement refused: the
\* three costliest, in descending order
C19_Witness ==
  /\ pc = "top"
  /\ sql_io = SqlOk
  /\ Cardinality(RowsInRange) = 5
  /\ { r.total_cost : r \in RowsInRange } = 1..5
  /\ top_query.limit = 3
  /\ [k \in 1..3 |-> top_result[1][k].total_cost] = <<5, 4, 3>>

\* a separator is due before visible widget j of assembled line a
SeparatorDue(a, j) == j > 1 /\ ~a.widgets[j - 1].wc.merge_next

\* the kinds of the parts when the first e visible widgets are emitted, each
\* preceded by a separator exactly when one is due
RECURSIVE ExpectedKinds(_, _)
ExpectedKinds(a, e) ==
  IF e = 0 THEN << >>
  ELSE ExpectedKinds(a, e - 1)
       \o (IF SeparatorDue(a, e) THEN <<"sep", "widget">> ELSE <<"widget">>)

\* C20: in the standard assembler a separator is emitted immediately before
\* emitted widget i if and only if i is not the first widget and the previous
\* widget's config does not set merge_next; none precedes the first widget; and
\* when current_total + separator_width + widget_width would exceed max_width,
\* processing stops without emitting that separator or that widget.
C20_SeparatorRule ==
  pc = "rendered" =>
    \A i \in 1..Len(assembled) :
      StdLine(assembled[i]) =>
        /\ [k \in 1..Len(assembled[i].parts) |-> assembled[i].parts[k].kind]
             = ExpectedKinds(assembled[i], Len(EmittedSlots(assembled[i].parts)))
        /\ \A k \in 1..Len(assembled[i].parts) :
             assembled[i].parts[k].kind = "sep"
               => assembled[i].parts[k].text = config.default_separator
        /\ \A j \in 1..Len(EmittedSlots(assembled[i].parts)) :
             SeparatorDue(assembled[i], j) =>
               PartsWidth(SubSeq(assembled[i].parts, 1,
                                 Len(ExpectedKinds(assembled[i], j - 1))))
               + UnicodeWidth(config.default_separator, unicode_lf)
               + assembled[i].widgets[j].output.display_width
               <= MaxWidthBudget
        /\ \A j \in 1..Len(assembled[i].widgets) :
             (/\ j = Len(EmittedSlots(assembled[i].parts)) + 1
              /\ SeparatorDue(assembled[i], j))
             => PartsWidth(assembled[i].parts)
                + UnicodeWidth(config.default_separator, unicode_lf)
                + assembled[i].widgets[j].output.display_width
                > MaxWidthBudget

\* three widgets emitted, the first merged with the second: widget, widget,
\* separator, widget
C20_Witness ==
  /\ pc = "rendered"
  /\ \E i \in 1..Len(assembled) :
       /\ StdLine(assembled[i])
       /\ Len(assembled[i].widgets) = 3
       /\ assembled[i].widgets[1].wc.merge_next
       /\ ~assembled[i].widgets[2].wc.merge_next
       /\ [k \in 1..Len(assembled[i].parts) |-> assembled[i].parts[k].kind]
            = <<"widget", "widget", "sep", "widget">>

\* a produced line that went through render_powerline_segment without a flex slot
PowerlineLine(a) == config.powerline.enabled /\ ~has_flex(a.widgets)

IsNotEndCap(p) == p.kind # "end_cap"

\* the kinds of the parts when the first e chips are emitted after the start cap,
\* each preceded by a transition exactly when one is due
RECURSIVE ExpectedChipKinds(_, _)
ExpectedChipKinds(a, e) ==
  IF e = 0 THEN IF IsSome(config.powerline.start_cap) THEN <<"start_cap">> ELSE << >>
  ELSE ExpectedChipKinds(a, e - 1)
       \o (IF SeparatorDue(a, e) THEN <<"transition", "chip">> ELSE <<"chip">>)

\* C21: powerline without a flex slot: the emitted chips are the first chips of
\* the line, each preceded by its transition when one is due and no transition
\* without its chip; the first chip left out, with its transition, would have
\* exceeded max_width; and the accumulated width of the start cap, the emitted
\* transitions and the emitted chips (text plus twice the padding) never exceeds
\* max_width.
C21_PowerlineOverflow ==
  pc = "rendered" =>
    \A i \in 1..Len(assembled) :
      PowerlineLine(assembled[i]) =>
        /\ EmittedChips(assembled[i].parts)
             = [j \in 1..Len(EmittedChips(assembled[i].parts)) |->
                  assembled[i].widgets[j].slot]
        /\ [k \in 1..Len(SelectSeq(assembled[i].parts, IsNotEndCap)) |->
              SelectSeq(assembled[i].parts, IsNotEndCap)[k].kind]
             = ExpectedChipKinds(assembled[i], Len(EmittedChips(assembled[i].parts)))
        /\ \A j \in 1..Len(assembled[i].widgets) :
             j = Len(EmittedChips(assembled[i].parts)) + 1
             => PartsWidth(SelectSeq(assembled[i].parts, IsNotEndCap))
                + (IF SeparatorDue(assembled[i], j)
                   THEN UnicodeWidth(config.powerline.separator, unicode_lf) ELSE 0)
                + assembled[i].widgets[j].output.display_width
                > MaxWidthBudget
        /\ PartsWidth(SelectSeq(assembled[i].parts, IsNotEndCap)) <= MaxWidthBudget

\* a produced powerline line with a flex slot
PowerlineFlexLine(a) == config.powerline.enabled /\ has_flex(a.widgets)

\* the configured slot of the first flex slot of the line
FlexSlotOf(a) == a.widgets[FlexPosition(a.widgets)].slot

\* the parts up to the gap: start cap, left chips and transitions, closing separator
LeftParts(a) ==
  SelectSeq(a.parts,
            LAMBDA p : \/ p.kind \in {"start_cap", "left_end"}
                       \/ p.kind \in {"chip", "transition"} /\ p.slot < FlexSlotOf(a))

\* the parts after the gap: reverse glyph, right chips and transitions
RightParts(a) ==
  SelectSeq(a.parts,
            LAMBDA p : \/ p.kind = "right_start"
                       \/ p.kind \in {"chip", "transition"} /\ p.slot > FlexSlotOf(a))

GapParts(a) == SelectSeq(a.parts, LAMBDA p : p.kind = "gap")

\* the chips of the line that follow the flex slot
RightGroup(a) ==
  SelectSeq(a.widgets, LAMBDA w : NotFlex(w) /\ w.slot > FlexSlotOf(a))

\* width of a group of chips: text plus twice the padding of each, and a
\* transition wherever the previous chip does not merge
RECURSIVE GroupWidth(_, _)
GroupWidth(group, k) ==
  IF k > Len(group) THEN 0
  ELSE (IF k > 1 /\ ~group[k - 1].wc.merge_next
        THEN UnicodeWidth(config.powerline.separator, unicode_lf) ELSE 0)
       + group[k].output.display_width
       + 2 * UnicodeWidth(UnwrapOr(group[k].wc.padding, config.default_padding),
                          unicode_lf)
       + GroupWidth(group, k + 1)

\* the right group's width with its leading separator
RightGroupWidth(a) ==
  IF RightGroup(a) = << >> THEN 0
  ELSE GroupWidth(RightGroup(a), 1)
       + UnicodeWidth(config.powerline.separator, unicode_lf)

\* C22: powerline with a flex slot: the plain spaces emitted after the left group
\* and its closing separator number max(0, max_width - (width emitted so far +
\* right-group width)), the right-group width being its chips (text plus twice the
\* padding), its transitions and one leading separator; and whenever every chip
\* is emitted and the left and right groups fit within max_width, the line up to
\* the end cap is exactly max_width wide, whatever the merge_next flags and the
\* width of the separator glyph.
C22_PowerlineGapFill ==
  pc = "rendered" =>
    \A i \in 1..Len(assembled) :
      PowerlineFlexLine(assembled[i]) =>
        /\ Len(GapParts(assembled[i])) <= 1
        /\ \A k \in 1..Len(GapParts(assembled[i])) :
             GapParts(assembled[i])[k].text
               = Repeat(<<" ">>, GapParts(assembled[i])[k].width)
        /\ PartsWidth(GapParts(assembled[i]))
             = saturating_sub(MaxWidthBudget,
                              PartsWidth(LeftParts(assembled[i]))
                              + RightGroupWidth(assembled[i]))
        /\ (/\ Len(EmittedChips(assembled[i].parts))
                 = Len(SelectSeq(assembled[i].widgets, NotFlex))
            /\ PartsWidth(LeftParts(assembled[i])) + PartsWidth(RightParts(assembled[i]))
                 <= MaxWidthBudget)
           => PartsWidth(SelectSeq(assembled[i].parts, IsNotEndCap)) = MaxWidthBudget

\* whether a graphic rendition is in force after a terminal has read s, active
\* telling whether one was in force before: ESC [ 0 m and ESC [ m switch every
\* attribute off, any other ESC [ ... m switches one on
RECURSIVE SgrActiveAfter(_, _)
SgrActiveAfter(s, active) ==
  IF s = << >> THEN active
  ELSE IF Head(s) = ESC /\ Len(s) > 1 /\ s[2] = "["
  THEN IF \E k \in 3..Len(s) : is_ascii_alphabetic(s[k])
       THEN LET end == CHOOSE k \in 3..Len(s) :
                         /\ is_ascii_alphabetic(s[k])
                         /\ \A j \in 3..(k - 1) : ~is_ascii_alphabetic(s[j])
            IN  SgrActiveAfter(SubSeq(s, end + 1, Len(s)),
                               IF s[end] = "m"
                               THEN SubSeq(s, 3, end - 1) \notin { << >>, <<"0">> }
                               ELSE active)
       ELSE active
  ELSE SgrActiveAfter(Tail(s), active)

IsSuffix(suf, s) ==
  Len(suf) <= Len(s) /\ SubSeq(s, Len(s) - Len(suf) + 1, Len(s)) = suf

FullReset == <<ESC, "[", "0", "m">>

\* the padding configured for slot s of configured line l
ConfiguredPadding(l, s) == UnwrapOr(config.lines[l][s].padding, config.default_padding)

\* C23: at every colour level other than None, each styled widget, flex fill,
\* powerline chip, transition glyph and cap ends with ESC[0m, no rendition is in
\* force after any part of a line, every assembled line ends with ESC[0m and no
\* rendition is in force at the end of a returned line.
C23_EverySegmentReset ==
  (pc = "rendered" /\ color_level # "None") =>
    /\ \A i \in 1..Len(assembled) :
         /\ IsSuffix(FullReset, assembled[i].line)
         /\ ~SgrActiveAfter(output_lines[i], FALSE)
         /\ \A k \in 1..Len(assembled[i].parts) :
              /\ ~SgrActiveAfter(assembled[i].parts[k].text, FALSE)
              /\ assembled[i].parts[k].kind
                   \in {"fill", "chip", "transition", "start_cap", "end_cap",
                        "left_end", "right_start"}
                 => IsSuffix(FullReset, assembled[i].parts[k].text)
              /\ assembled[i].parts[k].kind = "widget"
                 => IsSuffix(FullReset
                             \o ConfiguredPadding(assembled[i].from,
                                                  assembled[i].parts[k].slot),
                             assembled[i].parts[k].text)
              /\ assembled[i].parts[k].kind \in {"sep", "gap"}
                 => ~HasEscape(assembled[i].parts[k].text)

\* a TrueColor powerline line with both caps, a transition and a bold 24-bit
\* chip, next to a shorter line that auto-align padded after its reset
C23_Witness ==
  /\ pc = "rendered" /\ color_level = "TrueColor"
  /\ config.powerline.enabled
  /\ \E i \in 1..Len(assembled) :
       \E a, b, c, d \in 1..Len(assembled[i].parts) :
         /\ assembled[i].parts[a].kind = "start_cap"
         /\ assembled[i].parts[b].kind = "transition"
         /\ assembled[i].parts[c].kind = "end_cap"
         /\ assembled[i].parts[d].kind = "chip"
         /\ contains(assembled[i].parts[d].text,
                     <<ESC, "[", "3", "8", ";", "2", ";", "2", "6", ";", "4", "3",
                       ";", "6", "0", "m", ESC, "[", "1", "m">>)
  /\ \E j \in 1..Len(assembled) : Len(output_lines[j]) > Len(assembled[j].line)

\* the palette index of an RGB colour: 16 and 231 at the ends of the gray axis,
\* the grayscale ramp between them, the 6x6x6 cube otherwise
PaletteIndex(r, g, b) ==
  IF r = g /\ g = b
  THEN IF r < 8 THEN 16
       ELSE IF r > 248 THEN 231
       ELSE 232 + ((r - 8) * 24) \div 247
  ELSE 16 + 36 * ((r * 5) \div 255) + 6 * ((g * 5) \div 255) + ((b * 5) \div 255)

\* C24: rgb_to_256 gives 16 for r=g=b<8, 231 for r=g=b>248, otherwise for equal
\* channels the ramp index 232 + (r-8)*24/247 within 232..255, and for unequal
\* channels the cube index 16 + 36*(r*5/255) + 6*(g*5/255) + b*5/255 within
\* 16..231; no intermediate or final value overflows its integer type; and at
\* level Color256 an Rgb colour is emitted as that index and an Ansi256 colour
\* as its own index.
C24_RgbTo256 ==
  /\ (pc \in {"parsed", "styled"} /\ color_spec.tag = "Rgb") =>
       /\ rgb_to_256(color_spec.r, color_spec.g, color_spec.b)
            = PaletteIndex(color_spec.r, color_spec.g, color_spec.b)
       /\ (color_spec.r = color_spec.g /\ color_spec.g = color_spec.b
              /\ color_spec.r >= 8 /\ color_spec.r <= 248)
            => rgb_to_256(color_spec.r, color_spec.g, color_spec.b) \in 232..255
       /\ ~(color_spec.r = color_spec.g /\ color_spec.g = color_spec.b)
            => rgb_to_256(color_spec.r, color_spec.g, color_spec.b) \in 16..231
       /\ \A step \in rgb_to_256_steps(color_spec.r, color_spec.g, color_spec.b) :
            0 <= step[1] /\ step[1] <= step[2]
  /\ (pc = "styled" /\ color_level = "Color256" /\ color_spec.tag = "Rgb") =>
       /\ style_out.fg
            = <<ESC, "[", "3", "8", ";", "5", ";">>
              \o Dec(PaletteIndex(color_spec.r, color_spec.g, color_spec.b)) \o <<"m">>
       /\ style_out.bg
            = <<ESC, "[", "4", "8", ";", "5", ";">>
              \o Dec(PaletteIndex(color_spec.r, color_spec.g, color_spec.b)) \o <<"m">>
  /\ (pc = "styled" /\ color_level = "Color256" /\ color_spec.tag = "Ansi256") =>
       /\ style_out.fg = <<ESC, "[", "3", "8", ";", "5", ";">> \o color_name \o <<"m">>
       /\ style_out.bg = <<ESC, "[", "4", "8", ";", "5", ";">> \o color_name \o <<"m">>

\* #f8f8f8, the last step of the grayscale ramp, emitted as index 255 at Color256
C24_Witness ==
  /\ pc = "styled" /\ color_level = "Color256"
  /\ color_spec = Rgb(248, 248, 248)
  /\ style_out.fg = <<ESC, "[", "3", "8", ";", "5", ";", "2", "5", "5", "m">>

\* the first four hex digits of the SHA-256 digests of the payloads of the stored
\* keys, as sha256sum prints them
KnownChecks ==
  { << <<"1", "a", "2", "B", "-", "9", "d", "8", "e", "-", "C", "4", "B", "1">>,
       { <<"8", "3", "1", "e">>, <<"8", "3", "1", "E">> } >>,
    << <<"A", "B", "C", "D", "-", "1", "2", "3", "4", "-", "E", "F", "5", "6">>,
       { <<"7", "c", "7", "0">>, <<"7", "C", "7", "0">> } >>,
    << <<"A", "3", "F", "2", "-", "9", "D", "8", "E", "-", "C", "4", "B", "1">>,
       { <<"d", "1", "a", "1">>, <<"D", "1", "A", "1">>, <<"D", "1", "a", "1">>,
         <<"d", "1", "A", "1">> } >> }

\* the checksum segment of a well-formed key is the digest of its payload, in
\* either case
ChecksumHolds(key) ==
  \E kc \in KnownChecks : SubSeq(key, 8, 21) = kc[1] /\ SubSeq(key, 23, 26) \in kc[2]

\* C25: validate on a key of valid format returns Valid with the cache's tier,
\* expiry and features when a cache marked valid is younger than 24 hours,
\* GracePeriod when a valid cache is at least 24 hours and less than 7 days old,
\* and otherwise (no cache, invalid cache, 7 days or more) the offline result,
\* Valid/Pro exactly when the checksum segment matches and Invalid/Free if not;
\* a key of invalid format yields Invalid/Free without features whatever the
\* cache holds.
C25_ValidateByCacheAge ==
  (pc = "pro" /\ HasStoredKey) =>
    LET info == license_check[1].validated[1]
        cache == license_store.cache
    IN  IF ~IsLicenseKey(info.key)
        THEN info.status = "Invalid" /\ info.tier = "Free" /\ info.features = << >>
        ELSE IF cache # << >> /\ cache[1].valid /\ cache[1].age < 24
        THEN /\ info.status = "Valid"
             /\ info.tier = cache[1].tier
             /\ info.expires = cache[1].expires
             /\ info.features = cache[1].features
        ELSE IF cache # << >> /\ cache[1].valid /\ cache[1].age < 7 * 24
        THEN info.status = "GracePeriod"
        ELSE IF ChecksumHolds(info.key)
        THEN info.status = "Valid" /\ info.tier = "Pro"
        ELSE info.status = "Invalid" /\ info.tier = "Free"

\* a valid cache of exactly 24 hours: the grace period has begun
C25_Witness ==
  /\ pc = "pro" /\ HasStoredKey
  /\ license_store.cache # << >>
  /\ license_store.cache[1].valid
  /\ license_store.cache[1].age = 24
  /\ license_check[1].validated[1].status = "GracePeriod"

ActivatedOk ==
  /\ pc = "activate"
  /\ IsSome(activate_result)
  /\ Unwrap(activate_result)[1] = "Ok"

AfterActivate ==
  ActivatedOk =>
    /\ license_store.key_file = Some(trim(activate_key))
    /\ load_key(license_store.key_file) = Some(trim(activate_key))
    /\ IsSome(license_store.cache)
    /\ Unwrap(license_store.cache).valid
    /\ IsSome(check_pro(license_store).pro_info)
    /\ Unwrap(check_pro(license_store).pro_info).status = "Valid"

AfterDeactivate ==
  (pc = "deactivate" /\ storage_result = Some(Ok(<< >>))) =>
    /\ license_store.key_file = None
    /\ license_store.cache = None
    /\ load_key(license_store.key_file) = None
    /\ ~is_pro(license_store)

NoKeyNoPro == license_store.key_file = None => ~is_pro(license_store)

KeyOnlyByActivate ==
  (license_store.key_file = None /\ license_store'.key_file # None) => ActivatedOk'

\* C26: over any sequence of activate and deactivate calls (and of time
\* passing) on a license directory: right after a successful activate(key) the
\* key file holds the trimmed key, load_key returns it, a valid cache is stored
\* and check_pro returns Some with status Valid; right after a successful
\* deactivate no key and no cache are stored and load_key returns None; while no
\* key is stored is_pro is false, and a key comes to be stored only by a
\* successful activate.
C26_LicenseLifecycle ==
  /\ [](AfterActivate /\ AfterDeactivate /\ NoKeyNoPro)
  /\ [][KeyOnlyByActivate]_vars

UnchangedByActivate ==
  (pc' = "activate" /\ ~validate_format(activate_key')) =>
    /\ activate_result' = Some(Err)
    /\ license_store' = license_store

\* C27: an activate call with a key of invalid format returns Err and leaves
\* the license directory, key file and cache, exactly as it was before the
\* call, whether or not a write would have succeeded.
C27_ActivateInvalidFormat == [][UnchangedByActivate]_vars

\* a rejected activate on a directory holding an active license, which is still
\* active
C27_Witness ==
  /\ pc = "activate"
  /\ activate_result = Some(Err)
  /\ ~validate_format(activate_key)
  /\ is_pro(license_store)

\* C28: in a line of the standard assembler every separator part is followed
\* at once by a widget part: the last part is never a separator and no two
\* separators are adjacent (nor does a separator come first).
C28_NoDanglingSeparator ==
  pc = "rendered" =>
    \A i \in 1..Len(assembled) :
      StdLine(assembled[i]) =>
        \A k \in 1..Len(assembled[i].parts) :
          assembled[i].parts[k].kind = "sep" =>
            /\ k > 1
            /\ k < Len(assembled[i].parts)
            /\ assembled[i].parts[k + 1].kind = "widget"
            /\ assembled[i].parts[k - 1].kind = "widget"

\* the loop stopped at a widget that needed a separator: one separator was
\* emitted earlier, none for the widget left out
C28_Witness ==
  /\ pc = "rendered"
  /\ \E i \in 1..Len(assembled) :
       /\ StdLine(assembled[i])
       /\ Len(assembled[i].widgets) = 3
       /\ ~assembled[i].widgets[2].wc.merge_next
       /\ [k \in 1..Len(assembled[i].parts) |-> assembled[i].parts[k].kind]
            = <<"widget", "sep", "widget">>
       /\ PartsWidth(assembled[i].parts)
            + UnicodeWidth(config.default_separator, unicode_lf) <= MaxWidthBudget

IsSlotPart(p) == p.kind \in {"widget", "fill"}
IsFlexWidget(w) == w.wc.widget_type = "flex-separator"
IsFixedPart(p) == p.kind # "fill"

\* C29: a line of the flex assembler holds every visible widget of the line,
\* flex slots included, in configuration order, whatever max_width is; every
\* flex slot is replaced by its fill string repeated max(0, max_width -
\* fixed_width) times, the same count for all; and with a single flex slot
\* whose fill string is one column wide the line shown is max_width columns
\* wide when the fixed parts fit, and as wide as the fixed parts, with an empty
\* fill, when they do not.
C29_FlexKeepsAll ==
  pc = "rendered" =>
    \A i \in 1..Len(assembled) :
      FlexLine(assembled[i]) =>
        /\ [k \in 1..Len(SelectSeq(assembled[i].parts, IsSlotPart)) |->
              SelectSeq(assembled[i].parts, IsSlotPart)[k].slot]
             = [k \in 1..Len(assembled[i].widgets) |-> assembled[i].widgets[k].slot]
        /\ assembled[i].total
             = PartsWidth(SelectSeq(assembled[i].parts, IsFixedPart))
        /\ \A k \in 1..Len(assembled[i].widgets) :
             IsFlexWidget(assembled[i].widgets[k]) =>
               \E j \in 1..Len(assembled[i].parts) :
                 /\ assembled[i].parts[j].kind = "fill"
                 /\ assembled[i].parts[j].slot = assembled[i].widgets[k].slot
                 /\ VisibleChars(assembled[i].parts[j].text, "text")
                      = Repeat(assembled[i].widgets[k].output.text,
                               IF MaxWidthBudget > assembled[i].total
                               THEN MaxWidthBudget - assembled[i].total ELSE 0)
        /\ (/\ Len(SelectSeq(assembled[i].widgets, IsFlexWidget)) = 1
            /\ UnicodeWidth(SelectSeq(assembled[i].widgets, IsFlexWidget)[1].output.text,
                             unicode_lf) = 1)
           => VisibleWidth(assembled[i].line)
                = (IF assembled[i].total <= MaxWidthBudget
                   THEN MaxWidthBudget ELSE assembled[i].total)

\* two widgets around one flex slot of a one-column fill: fixed parts of 6
\* columns and one column of fill make up the whole budget
C29_Witness ==
  /\ pc = "rendered"
  /\ \E i \in 1..Len(assembled) :
       /\ FlexLine(assembled[i])
       /\ Len(assembled[i].widgets) = 3
       /\ IsFlexWidget(assembled[i].widgets[2])
       /\ assembled[i].widgets[2].output.text = <<"-">>
       /\ assembled[i].widgets[1].wc.padding = Some(<<" ">>)
       /\ assembled[i].total = 6
       /\ MaxWidthBudget = MaxTermWidth
       /\ VisibleWidth(assembled[i].line) = MaxTermWidth

\* slot k of configured line l is of a registered type and its widget returns a
\* visible output
ShowsSlot(l, k) ==
  /\ config.lines[l][k].widget_type \in RegisteredWidgets
  /\ IsSome(registry_render(config.lines[l][k], widget_out[l][k]))
  /\ Unwrap(registry_render(config.lines[l][k], widget_out[l][k])).visible

\* the configured lines with at least one such slot, in configuration order
RECURSIVE ProducingLines(_)
ProducingLines(l) ==
  IF l > Len(config.lines) THEN << >>
  ELSE (IF \E k \in 1..Len(config.lines[l]) : ShowsSlot(l, k) THEN <<l>> ELSE << >>)
       \o ProducingLines(l + 1)

\* C30: whatever the configuration, render returns one string per configured
\* line that has a slot of a registered type with a visible output, in
\* configuration order, and none for the other lines (empty, all hidden, all
\* unregistered); the string of a line is assembled from exactly its visible
\* registered slots; and a widget is rendered at most once per configured slot,
\* never for an unregistered type.
C30_OneStringPerLine ==
  pc \in {"rendered", "panicked"} =>
    /\ Len(output_lines) = Len(ProducingLines(1))
    /\ [i \in 1..Len(assembled) |-> assembled[i].from] = ProducingLines(1)
    /\ \A i \in 1..Len(assembled) :
         /\ i <= Len(output_lines)
         /\ IsPrefix(assembled[i].line, output_lines[i])
         /\ \A k \in 1..Len(config.lines[assembled[i].from]) :
              ShowsSlot(assembled[i].from, k)
                <=> \E j \in 1..Len(assembled[i].widgets) :
                      assembled[i].widgets[j].slot = k
    /\ \A a, b \in 1..Len(render_calls) :
         render_calls[a] = render_calls[b] => a = b
    /\ \A a \in 1..Len(render_calls) :
         /\ render_calls[a][1] \in 1..Len(config.lines)
         /\ render_calls[a][2] \in 1..Len(config.lines[render_calls[a][1]])
         /\ config.lines[render_calls[a][1]][render_calls[a][2]].widget_type
              \in RegisteredWidgets

====
